---------------------------- MODULE Spec2Model ----------------------------
(***************************************************************************)
(* A model of the coroutine runtime of CHONG589/Coroutine:                 *)
(*   - the Fiber primitive (resume / yield / reset / MainFunc),            *)
(*   - the Scheduler (schedule / start / stop / run / idle / stopping),    *)
(*   - the IOManager's per-fd event contexts.                              *)
(* Three specifications share the fiber primitives:                        *)
(*   SpecFiber  the fiber test driver (test_fiber on two threads),         *)
(*   Spec       the scheduler with its caller thread and worker threads,   *)
(*   SpecIO     addEvent / delEvent / cancelEvent / cancelAll / idle.      *)
(***************************************************************************)
EXTENDS Integers, Sequences, FiniteSets, TLC

VARIABLES
    \* ---- Fiber primitive (fiber.cpp) ----
    fibers,             \* heap of Fiber objects: pointer -> object
    t_fiber,            \* thread -> the fiber the thread is running (t_fiber)
    t_thread_fiber,     \* thread -> the thread's main fiber (t_thread_fiber)
    f_thread,           \* ghost: fiber -> the thread that created or last resumed it
    crash,              \* "none", or how the process died
    \* ---- test_fiber driver ----
    tpc,                \* thread -> position in test_fiber
    tfib,               \* thread -> the fiber the test created
    thist,              \* thread -> what the test has observed so far
    \* ---- Scheduler (scheduler.cc) ----
    ctor,               \* the constructor's arguments [threads, use_caller]
    m_rootFiber,        \* the caller thread's scheduling fiber, or nullptr
    m_stopping,
    m_tasks,            \* the task queue, a sequence of ScheduleTask
    m_activeThreadCount,
    m_idleThreadCount,
    m_threads,          \* the thread pool: ids of the spawned threads
    t_scheduler_fiber,  \* thread -> the thread's scheduling fiber
    wk,                 \* thread -> the locals of the thread's Scheduler::run()
    mainst,             \* the caller thread's position in the user program
    taskLog,            \* ghost: what happened to each schedule() call
    \* ---- IOManager (iomanager.cc) ----
    m_fdContexts,       \* fd -> FdContext [events, read, write]
    fd_mutex,           \* fd -> the holder of FdContext::mutex, <<>> when free
    m_pendingEventCount,
    epoll_interest,     \* fd -> the events the epoll instance watches the fd for
    epoll_ready,        \* readiness edges the kernel has not reported yet
    io,                 \* thread -> the locals of its IOManager call or idle()
    io_scheduled,       \* ghost: the calls of Scheduler::schedule, in order
    io_ops,             \* number of IOManager calls made so far
    ndebug,             \* the build defines NDEBUG: assert() does nothing
    m_timers,           \* number of timers of the TimerManager not yet expired
    io_main,            \* the owner of the IOManager: its position and counts
    \* ---- syscall hooks (hook.cpp) and FdManager ----
    t_hook_enable,      \* thread -> the thread's t_hook_enable
    m_datas,            \* FdManager: fd -> FdCtx, or NoCtx
    kfd,                \* the kernel's side of each fd
    hook,               \* thread -> the hooked call it is in, or made last
    hook_ops,           \* number of hooked calls made so far
    \* ---- TimerManager (timer.h) ----
    tm_timers,          \* TimerManager::m_timers, a set of Timer objects
    tm_now,             \* the clock, GetElapsedMS()
    m_previouseTime,
    tm_cbs,             \* callbacks handed out by listExpiredCb, not yet invoked
    tm_weak,            \* the witnesses (weak_cond targets) that are alive
    tm_log              \* ghost: the last listExpiredCb pass and the invocations

fiberVars == <<fibers, t_fiber, t_thread_fiber, f_thread, crash>>
testVars  == <<tpc, tfib, thist>>
schedVars == <<ctor, m_rootFiber, m_stopping, m_tasks, m_activeThreadCount,
               m_idleThreadCount, m_threads, t_scheduler_fiber, wk, mainst,
               taskLog>>
ioVars    == <<m_fdContexts, fd_mutex, m_pendingEventCount, epoll_interest,
               epoll_ready, io, io_scheduled, io_ops, ndebug, m_timers,
               io_main, t_hook_enable, m_datas, kfd, hook, hook_ops,
               tm_timers, tm_now, m_previouseTime, tm_cbs, tm_weak, tm_log>>
hookVars  == <<t_hook_enable, m_datas, kfd, hook, hook_ops>>
timerVars == <<tm_timers, tm_now, m_previouseTime, tm_cbs, tm_weak, tm_log>>
vars      == <<fibers, t_fiber, t_thread_fiber, f_thread, crash, tpc, tfib, thist,
               ctor, m_rootFiber, m_stopping, m_tasks, m_activeThreadCount,
               m_idleThreadCount, m_threads, t_scheduler_fiber, wk, mainst,
               taskLog, m_fdContexts, fd_mutex, m_pendingEventCount,
               epoll_interest, epoll_ready, io, io_scheduled, io_ops, ndebug,
               m_timers, io_main, t_hook_enable, m_datas, kfd, hook, hook_ops,
               tm_timers, tm_now, m_previouseTime, tm_cbs, tm_weak, tm_log>>

-----------------------------------------------------------------------------
(* Bounds *)

MaxYields == 2      \* a test body yields at most this many times
MaxResets == 2      \* resets of one fiber in test_fiber

-----------------------------------------------------------------------------
(* Fiber *)

READY   == "READY"
RUNNING == "RUNNING"
TERM    == "TERM"

\* Pointers to Fiber objects name the allocation: the main and the idle fiber
\* of a thread, the root fiber of the scheduler, the fiber made for the n-th
\* schedule() call, the fiber of a test thread.
nullptr   == <<"null", 0>>
MainF(th) == <<"main", th>>
IdleF(th) == <<"idle", th>>
RootF     == <<"root", 0>>
TaskF(n)  == <<"task", n>>
TestF(th) == <<"test", th>>

Alloc(heap, p, obj) == heap @@ (p :> obj)

\* A body is the sequence of the runtime calls it makes; it returns at its end.
Yields(k) == [i \in 1..k |-> "yield"]

\* Fiber::Fiber(): the main fiber of a thread, no stack, no cb, RUNNING.
MainFiberObj ==
    [state |-> RUNNING, cb |-> <<>>, pc |-> 0, stack |-> nullptr,
     runInScheduler |-> FALSE]

\* The value m_state is declared with in the class (the constructors of new
\* task fibers do not assign it).
FiberInitState == READY

\* Fiber::Fiber(cb, stacksize, run_in_scheduler): a stack is allocated, the
\* context is made to enter MainFunc; m_state keeps its initial value READY.
NewFiberObj(cb, stackId, run_in_scheduler) ==
    [state |-> FiberInitState, cb |-> cb, pc |-> 1, stack |-> stackId,
     runInScheduler |-> run_in_scheduler]

\* Mutant of FiberReset: reset() that forgets m_state = READY.
ResetKeepsState(fobj, cb) == [fobj EXCEPT !.cb = cb, !.pc = 1]

\* Fiber::reset(cb): logs when the fiber has no stack or is not TERM, and goes on.
FiberReset(fobj, cb) ==
    [fobj EXCEPT !.cb = cb, !.pc = 1, !.state = READY]

\* Fiber::resume(): the state change before swapcontext.
ResumePre(fobj) == fobj.state # TERM /\ fobj.state # RUNNING
FiberResume(fobj) == [fobj EXCEPT !.state = RUNNING]

\* Mutant of FiberYield: yield() that forgets to leave RUNNING.
YieldKeepsState(fobj) == fobj

\* Fiber::yield(): the state change before swapcontext.
FiberYield(fobj) ==
    IF fobj.state # TERM THEN [fobj EXCEPT !.state = READY] ELSE fobj

\* Mutant of FiberMainFuncEnd: MainFunc() that forgets m_state = TERM.
MainFuncEndNoTerm(fobj) == [fobj EXCEPT !.cb = <<>>, !.state = READY]

\* Fiber::MainFunc() after m_cb() returned: m_cb = nullptr, m_state = TERM, yield().
FiberMainFuncEnd(fobj) ==
    FiberYield([fobj EXCEPT !.cb = <<>>, !.state = TERM])

\* The call the body of a running fiber makes next, "return" at its end.
NextOp(fobj) == IF fobj.pc <= Len(fobj.cb) THEN fobj.cb[fobj.pc] ELSE "return"

-----------------------------------------------------------------------------
(* test_fiber, run by two threads *)

\* The scheduler's state in a specification that has no scheduler.
SchedUnused ==
    /\ ctor = [threads |-> 1, use_caller |-> FALSE]
    /\ m_rootFiber = nullptr
    /\ m_stopping = FALSE
    /\ m_tasks = <<>>
    /\ m_activeThreadCount = 0
    /\ m_idleThreadCount = 0
    /\ m_threads = {}
    /\ t_scheduler_fiber = <<>>
    /\ wk = <<>>
    /\ mainst = <<>>
    /\ taskLog = <<>>

\* The IOManager's state in a specification that has no IOManager.
IOUnused ==
    /\ m_fdContexts = <<>>
    /\ fd_mutex = <<>>
    /\ m_pendingEventCount = 0
    /\ epoll_interest = <<>>
    /\ epoll_ready = {}
    /\ io = <<>>
    /\ io_scheduled = <<>>
    /\ io_ops = 0
    /\ ndebug = FALSE
    /\ m_timers = 0
    /\ io_main = <<>>

\* The hooks' state in a specification whose threads T make no hooked call:
\* t_hook_enable is false on every thread (static thread_local, line 106).
HookUnused(T) ==
    /\ t_hook_enable = [th \in T |-> FALSE]
    /\ m_datas = <<>>
    /\ kfd = <<>>
    /\ hook = <<>>
    /\ hook_ops = 0

\* The TimerManager's state in a specification that has no TimerManager.
TimerUnused ==
    /\ tm_timers = {}
    /\ tm_now = 0
    /\ m_previouseTime = 0
    /\ tm_cbs = <<>>
    /\ tm_weak = {}
    /\ tm_log = <<>>

TestThreads == {1, 2}

NoHist == [calls |-> 0, k |-> 0, resets |-> 0, last |-> "none",
           resetFrom |-> "none", stack |-> nullptr]

InitFiberTest ==
    /\ fibers = <<>>
    /\ t_fiber = [th \in TestThreads |-> nullptr]
    /\ t_thread_fiber = [th \in TestThreads |-> nullptr]
    /\ f_thread = <<>>
    /\ crash = "none"
    /\ tpc = [th \in TestThreads |-> "start"]
    /\ tfib = [th \in TestThreads |-> nullptr]
    /\ thist = [th \in TestThreads |-> NoHist]
    /\ SchedUnused
    /\ IOUnused
    /\ HookUnused(TestThreads)
    /\ TimerUnused

\* Fiber::GetThis() on a thread without a fiber: creates the main fiber.
TGetThis(th) ==
    /\ tpc[th] = "start"
    /\ t_fiber[th] = nullptr
    /\ fibers' = Alloc(fibers, MainF(th), MainFiberObj)
    /\ t_fiber' = [t_fiber EXCEPT ![th] = MainF(th)]
    /\ t_thread_fiber' = [t_thread_fiber EXCEPT ![th] = MainF(th)]
    /\ f_thread' = Alloc(f_thread, MainF(th), th)
    /\ tpc' = [tpc EXCEPT ![th] = "create"]
    /\ UNCHANGED <<crash, tfib, thist, schedVars, ioVars>>

\* Fiber::ptr fiber(new Fiber(run_in_fiber, 0, false))
TNewFiber(th) ==
    /\ tpc[th] = "create"
    /\ \E k \in 0..MaxYields :
        /\ fibers' = Alloc(fibers, TestF(th), NewFiberObj(Yields(k), TestF(th), FALSE))
        /\ thist' = [thist EXCEPT ![th] =
                        [NoHist EXCEPT !.k = k, !.stack = TestF(th)]]
    /\ tfib' = [tfib EXCEPT ![th] = TestF(th)]
    /\ f_thread' = Alloc(f_thread, TestF(th), th)
    /\ tpc' = [tpc EXCEPT ![th] = "main"]
    /\ UNCHANGED <<t_fiber, t_thread_fiber, crash, schedVars, ioVars>>

\* fiber->resume() from the thread's main fiber.
TResume(th) ==
    /\ tpc[th] = "main"
    /\ crash = "none"
    /\ LET f == tfib[th] IN
        /\ ResumePre(fibers[f])
        /\ fibers' = [fibers EXCEPT ![f] = FiberResume(@)]
        /\ t_fiber' = [t_fiber EXCEPT ![th] = f]
        /\ f_thread' = [f_thread EXCEPT ![f] = th]
    /\ tpc' = [tpc EXCEPT ![th] = "fiber"]
    /\ thist' = [thist EXCEPT ![th].calls = @ + 1, ![th].last = "resume"]
    /\ UNCHANGED <<t_thread_fiber, crash, tfib, schedVars, ioVars>>

\* The running fiber reaches its next yield() or the end of its body; either
\* way control is back in the caller of resume.
TFiberStep(th) ==
    /\ tpc[th] = "fiber"
    /\ LET f == t_fiber[th] IN
        fibers' = [fibers EXCEPT ![f] =
                     IF NextOp(@) = "yield"
                     THEN FiberYield([@ EXCEPT !.pc = @ + 1])
                     ELSE FiberMainFuncEnd(@)]
    /\ t_fiber' = [t_fiber EXCEPT ![th] = t_thread_fiber[th]]
    /\ tpc' = [tpc EXCEPT ![th] = "main"]
    /\ UNCHANGED <<t_thread_fiber, f_thread, crash, tfib, thist, schedVars, ioVars>>

\* fiber->reset(cb) from the thread's main fiber.
TReset(th) ==
    /\ tpc[th] = "main"
    /\ thist[th].resets < MaxResets
    /\ \E k \in 0..MaxYields :
        LET f == tfib[th] IN
        /\ fibers' = [fibers EXCEPT ![f] = FiberReset(@, Yields(k))]
        /\ thist' = [thist EXCEPT ![th].calls = 0, ![th].k = k,
                                  ![th].resets = @ + 1, ![th].last = "reset",
                                  ![th].resetFrom = fibers[f].state]
    /\ UNCHANGED <<t_fiber, t_thread_fiber, f_thread, crash, tpc, tfib, schedVars, ioVars>>

NextFiberTest ==
    \E th \in TestThreads :
        \/ TGetThis(th)
        \/ TNewFiber(th)
        \/ TResume(th)
        \/ TFiberStep(th)
        \/ TReset(th)

SpecFiber == InitFiberTest /\ [][NextFiberTest]_vars

-----------------------------------------------------------------------------
(* Scheduler *)

MaxThreads   == 2   \* the constructor's threads argument is in 1..MaxThreads
MaxMainTasks == 2   \* schedule() calls made by the caller thread
MaxStops     == 1   \* stop() calls made by the caller thread
SpawnCount   == 1   \* tasks a spawning task schedules (test_fiber4 schedules 3)

Caller == 0                         \* the thread that constructs the scheduler
Threads == 0..MaxThreads
AnyThread == -1                     \* ScheduleTask::thread when not pinned
\* The thread argument of the caller's schedule() calls: none, the caller, the
\* first spawned thread (which is no worker when no thread is spawned).
PinChoices == {AnyThread, Caller, 1}

\* Mutant of ThreadCount: the constructor forgets --threads for the caller.
ThreadCountNoCaller(c) == c.threads

\* Scheduler::Scheduler, line 22 and 44
ThreadCount(c) == IF c.use_caller THEN c.threads - 1 ELSE c.threads
\* Scheduler::Scheduler, lines 37 and 42
m_rootThread == IF ctor.use_caller THEN Caller ELSE -1
\* Mutant of SpawnedIds: start() creates `threads` threads whatever use_caller is.
SpawnAllThreads(c) == 1..c.threads

\* Scheduler::start(), lines 79-85: the threads it creates
SpawnedIds(c) == 1..ThreadCount(c)

\* The task bodies of test_scheduler.cc: test_fiber3 (returns), test_fiber1
\* (schedules itself, yields, returns), test_fiber4 (schedules pinned callbacks).
PlainBody   == <<>>
YielderBody == <<"schedself", "yield">>
SpawnerBody == [i \in 1..SpawnCount |-> "spawn"]

\* What the caller thread schedules, as test_scheduler.cc does: a callback or a
\* new Fiber that returns, pinned or not; a yielding and a spawning callback.
MainTasks ==
    { [body |-> PlainBody, asFiber |-> a, thread |-> p] :
          a \in BOOLEAN, p \in PinChoices }
    \cup { [body |-> b, asFiber |-> FALSE, thread |-> AnyThread] :
          b \in {YielderBody, SpawnerBody} }

\* ScheduleTask: a fiber or a callback, and the thread it is pinned to.
FiberTask(sid, f, thr) ==
    [sid |-> sid, fiber |-> f, isCb |-> FALSE, cb |-> <<>>, thread |-> thr]
CbTask(sid, body, thr) ==
    [sid |-> sid, fiber |-> nullptr, isCb |-> TRUE, cb |-> body, thread |-> thr]
\* ScheduleTask::reset()
NoTask == [sid |-> 0, fiber |-> nullptr, isCb |-> FALSE, cb |-> <<>>, thread |-> -1]

NoLocals == [pc |-> "off", task |-> NoTask, cur |-> nullptr, idle_fiber |-> nullptr]

\* Ghost record of one schedule() call: the thread it pins to, the thread that
\* made the call, how often the task was taken and resumed, by which thread,
\* as which of all takes, and whether the call came after a stop() returned.
NewLog(thr, by) == [pin |-> thr, from |-> by, deq |-> 0, run |-> 0, by |-> -1,
                    ord |-> 0, late |-> FALSE]
Taken(log) == {n \in DOMAIN log : log[n].deq > 0}

InitSched ==
    /\ ctor \in [threads : 1..MaxThreads, use_caller : BOOLEAN]
    \* Scheduler::Scheduler: with use_caller the caller's main fiber is created
    \* by Fiber::GetThis() and m_rootFiber is a fiber that runs Scheduler::run.
    /\ fibers = IF ctor.use_caller
                THEN Alloc(Alloc(<<>>, MainF(Caller), MainFiberObj),
                           RootF, NewFiberObj(<<"run">>, RootF, FALSE))
                ELSE <<>>
    /\ f_thread = IF ctor.use_caller
                  THEN Alloc(Alloc(<<>>, MainF(Caller), Caller), RootF, Caller)
                  ELSE <<>>
    /\ m_rootFiber = IF ctor.use_caller THEN RootF ELSE nullptr
    /\ t_fiber = [th \in Threads |->
                    IF th = Caller /\ ctor.use_caller THEN MainF(Caller) ELSE nullptr]
    /\ t_thread_fiber = [th \in Threads |->
                    IF th = Caller /\ ctor.use_caller THEN MainF(Caller) ELSE nullptr]
    /\ t_scheduler_fiber = [th \in Threads |->
                    IF th = Caller /\ ctor.use_caller THEN RootF ELSE nullptr]
    /\ crash = "none"
    /\ m_stopping = FALSE
    /\ m_tasks = <<>>
    /\ m_activeThreadCount = 0
    /\ m_idleThreadCount = 0
    /\ m_threads = {}
    /\ wk = [th \in Threads |-> NoLocals]
    /\ mainst = [pc |-> "user", started |-> FALSE, scheduled |-> 0, stops |-> 0,
                 joining |-> {}]
    /\ taskLog = <<>>
    /\ tpc = <<>>
    /\ tfib = <<>>
    /\ thist = <<>>
    /\ IOUnused
    /\ HookUnused(0..MaxThreads)
    /\ TimerUnused

\* Mutant of stopping: stopping() that does not look at the queue.
StoppingIgnoresQueue == m_stopping /\ m_activeThreadCount = 0

\* Scheduler::stopping()
stopping == m_stopping /\ m_tasks = <<>> /\ m_activeThreadCount = 0

\* Scheduler::schedule(fc, thread): the task is pushed at the back of m_tasks
\* under the mutex (tickle() of the base class does nothing).
Enqueue(q, task) == Append(q, task)

\* Scheduler::run(), lines 172-195: the first task of the queue that is not
\* pinned to another thread, 0 when there is none.
RECURSIVE ScanFrom(_, _, _)
ScanFrom(q, i, th) ==
    IF i > Len(q) THEN 0
    ELSE IF q[i].thread # AnyThread /\ q[i].thread # th THEN ScanFrom(q, i + 1, th)
    ELSE i

\* Mutant of FirstFor: the scan ignores the thread a task is pinned to.
FirstAny(q, th) == IF Len(q) > 0 THEN 1 ELSE 0

\* Mutant of FirstFor: the scan takes the last task the thread may run.
LastFor(q, th) ==
    LET ok == {i \in DOMAIN q : q[i].thread = AnyThread \/ q[i].thread = th}
    IN  IF ok = {} THEN 0 ELSE CHOOSE i \in ok : \A j \in ok : j <= i

FirstFor(q, th) == ScanFrom(q, 1, th)

\* m_tasks.erase(it)
Erase(q, i) == [j \in 1..(Len(q) - 1) |-> IF j < i THEN q[j] ELSE q[j + 1]]

-----------------------------------------------------------------------------
(* The caller thread's program: schedule(), start(), stop() in any order *)

\* sc.schedule(fiber, thread) with a new Fiber, or sc.schedule(cb, thread)
MSchedule ==
    /\ crash = "none"
    /\ mainst.pc = "user"
    /\ mainst.scheduled < MaxMainTasks
    /\ \E t \in MainTasks :
        LET sid  == Len(taskLog) + 1
            f    == TaskF(sid)
            body == t.body
            thr  == t.thread
        IN  /\ IF t.asFiber
               THEN /\ fibers' = Alloc(fibers, f, NewFiberObj(body, f, TRUE))
                    /\ f_thread' = Alloc(f_thread, f, Caller)
                    /\ m_tasks' = Enqueue(m_tasks, FiberTask(sid, f, thr))
               ELSE /\ m_tasks' = Enqueue(m_tasks, CbTask(sid, body, thr))
                    /\ UNCHANGED <<fibers, f_thread>>
            /\ taskLog' = Append(taskLog,
                                 [NewLog(thr, Caller) EXCEPT !.late = mainst.stops > 0])
    /\ mainst' = [mainst EXCEPT !.scheduled = @ + 1]
    /\ UNCHANGED <<t_fiber, t_thread_fiber, crash, testVars, ioVars, ctor, m_rootFiber,
                   m_stopping, m_activeThreadCount, m_idleThreadCount, m_threads,
                   t_scheduler_fiber, wk>>

\* Scheduler::start(): creates m_threadCount threads that execute run().
MStart ==
    /\ crash = "none"
    /\ mainst.pc = "user"
    /\ ~mainst.started
    /\ mainst' = [mainst EXCEPT !.started = TRUE]
    /\ IF m_stopping
       THEN UNCHANGED <<m_threads, wk>>
       ELSE /\ m_threads' = SpawnedIds(ctor)
            /\ wk' = [th \in Threads |->
                        IF th \in SpawnedIds(ctor)
                        THEN [wk[th] EXCEPT !.pc = "enter"] ELSE wk[th]]
    /\ UNCHANGED <<fiberVars, testVars, ioVars, ctor, m_rootFiber, m_stopping, m_tasks,
                   m_activeThreadCount, m_idleThreadCount, t_scheduler_fiber, taskLog>>

\* Scheduler::stop(), lines 104-138: returns at once when stopping(); otherwise
\* sets m_stopping and, with a root fiber, resumes it: the caller thread then
\* executes run() until run() returns.
MStop ==
    /\ crash = "none"
    /\ mainst.pc = "user"
    /\ mainst.stops < MaxStops
    /\ IF stopping
       THEN /\ mainst' = [mainst EXCEPT !.stops = @ + 1]
            /\ UNCHANGED <<fibers, t_fiber, f_thread, crash, m_stopping, wk>>
       ELSE /\ m_stopping' = TRUE
            /\ IF m_rootFiber # nullptr
               THEN IF ResumePre(fibers[m_rootFiber])
                    THEN /\ fibers' = [fibers EXCEPT ![m_rootFiber] = FiberResume(@)]
                         /\ t_fiber' = [t_fiber EXCEPT ![Caller] = m_rootFiber]
                         /\ f_thread' = [f_thread EXCEPT ![m_rootFiber] = Caller]
                         /\ wk' = [wk EXCEPT ![Caller].pc = "enter"]
                         /\ mainst' = [mainst EXCEPT !.pc = "stop_root"]
                         /\ UNCHANGED crash
                    ELSE /\ crash' \in {"assert", "undefined"}
                         /\ UNCHANGED <<fibers, t_fiber, f_thread, wk, mainst>>
               ELSE /\ mainst' = [mainst EXCEPT !.pc = "stop_swap"]
                    /\ UNCHANGED <<fibers, t_fiber, f_thread, crash, wk>>
    /\ UNCHANGED <<t_thread_fiber, testVars, ioVars, ctor, m_rootFiber, m_tasks,
                   m_activeThreadCount, m_idleThreadCount, m_threads,
                   t_scheduler_fiber, taskLog>>

\* Scheduler::stop(), lines 140-145: thrs.swap(m_threads) under the mutex.
MStopSwap ==
    /\ crash = "none"
    /\ mainst.pc = "stop_swap"
    /\ mainst' = [mainst EXCEPT !.pc = "stop_join", !.joining = m_threads]
    /\ m_threads' = {}
    /\ UNCHANGED <<fiberVars, testVars, ioVars, ctor, m_rootFiber, m_stopping, m_tasks,
                   m_activeThreadCount, m_idleThreadCount, t_scheduler_fiber, wk,
                   taskLog>>

\* Scheduler::stop(), lines 146-149: join() returns once the thread has ended.
MStopJoin ==
    /\ crash = "none"
    /\ mainst.pc = "stop_join"
    /\ \A th \in mainst.joining : wk[th].pc = "exit"
    /\ mainst' = [mainst EXCEPT !.pc = "user", !.stops = @ + 1, !.joining = {}]
    /\ UNCHANGED <<fiberVars, testVars, ioVars, ctor, m_rootFiber, m_stopping, m_tasks,
                   m_activeThreadCount, m_idleThreadCount, m_threads,
                   t_scheduler_fiber, wk, taskLog>>

-----------------------------------------------------------------------------
(* Scheduler::run(), executed by each spawned thread and, inside m_rootFiber, *)
(* by the caller thread                                                       *)

\* Lines 152-165: setThis(); a thread other than the root thread takes its main
\* fiber (made by Fiber::GetThis()) as scheduling fiber; the idle fiber is made.
WEnter(th) ==
    /\ crash = "none"
    /\ wk[th].pc = "enter"
    /\ LET own  == th # m_rootThread
           base == IF own THEN Alloc(fibers, MainF(th), MainFiberObj) ELSE fibers
           idle == IdleF(th)
       IN  /\ fibers' = Alloc(base, idle, NewFiberObj(<<"idle">>, idle, TRUE))
           /\ f_thread' = Alloc(IF own THEN Alloc(f_thread, MainF(th), th) ELSE f_thread,
                                idle, th)
           /\ t_fiber' = IF own THEN [t_fiber EXCEPT ![th] = MainF(th)] ELSE t_fiber
           /\ t_thread_fiber' =
                IF own THEN [t_thread_fiber EXCEPT ![th] = MainF(th)] ELSE t_thread_fiber
           /\ t_scheduler_fiber' =
                IF own THEN [t_scheduler_fiber EXCEPT ![th] = MainF(th)]
                ELSE t_scheduler_fiber
           /\ wk' = [wk EXCEPT ![th].pc = "scan", ![th].idle_fiber = idle]
    /\ UNCHANGED <<crash, testVars, ioVars, ctor, m_rootFiber, m_stopping, m_tasks,
                   m_activeThreadCount, m_idleThreadCount, m_threads, mainst,
                   taskLog>>

\* Mutant of WTake: the task is erased and the active count is not raised.
WTakeNoCount(th) ==
    /\ crash = "none"
    /\ wk[th].pc = "scan"
    /\ FirstFor(m_tasks, th) # 0
    /\ LET i == FirstFor(m_tasks, th)
           e == m_tasks[i]
       IN  IF e.fiber # nullptr /\ fibers[e.fiber].state # READY
           THEN /\ crash' \in {"assert", "undefined"}
                /\ UNCHANGED <<m_tasks, m_activeThreadCount, wk, taskLog>>
           ELSE /\ m_tasks' = Erase(m_tasks, i)
                /\ m_activeThreadCount' = m_activeThreadCount
                /\ wk' = [wk EXCEPT ![th].pc = "exec", ![th].task = e]
                /\ taskLog' = [taskLog EXCEPT ![e.sid].deq = @ + 1, ![e.sid].by = th,
                                              ![e.sid].ord = Cardinality(Taken(taskLog)) + 1]
                /\ UNCHANGED crash
    /\ UNCHANGED <<fibers, t_fiber, t_thread_fiber, f_thread, testVars, ioVars, ctor,
                   m_rootFiber, m_stopping, m_idleThreadCount, m_threads,
                   t_scheduler_fiber, mainst>>

\* Lines 166-205, with a task found: under the mutex the task is asserted to be
\* a READY fiber or a callback, copied, erased, and the active count raised.
WTake(th) ==
    /\ crash = "none"
    /\ wk[th].pc = "scan"
    /\ FirstFor(m_tasks, th) # 0
    /\ LET i == FirstFor(m_tasks, th)
           e == m_tasks[i]
       IN  IF e.fiber # nullptr /\ fibers[e.fiber].state # READY
           THEN /\ crash' \in {"assert", "undefined"}
                /\ UNCHANGED <<m_tasks, m_activeThreadCount, wk, taskLog>>
           ELSE /\ m_tasks' = Erase(m_tasks, i)
                /\ m_activeThreadCount' = m_activeThreadCount + 1
                /\ wk' = [wk EXCEPT ![th].pc = "exec", ![th].task = e]
                /\ taskLog' = [taskLog EXCEPT ![e.sid].deq = @ + 1, ![e.sid].by = th,
                                              ![e.sid].ord = Cardinality(Taken(taskLog)) + 1]
                /\ UNCHANGED crash
    /\ UNCHANGED <<fibers, t_fiber, t_thread_fiber, f_thread, testVars, ioVars, ctor,
                   m_rootFiber, m_stopping, m_idleThreadCount, m_threads,
                   t_scheduler_fiber, mainst>>

\* Lines 166-205 with no task found, then lines 227-239: run() returns when the
\* idle fiber is TERM, otherwise the idle count is raised and the idle fiber
\* resumed. When run() returns on the caller thread, m_rootFiber's MainFunc
\* ends and control is back in stop().
WNoTask(th) ==
    /\ crash = "none"
    /\ wk[th].pc = "scan"
    /\ FirstFor(m_tasks, th) = 0
    /\ LET idle == wk[th].idle_fiber IN
        IF fibers[idle].state = TERM
        THEN /\ wk' = [wk EXCEPT ![th].pc = "exit"]
             /\ IF th = m_rootThread
                THEN /\ fibers' = [fibers EXCEPT ![m_rootFiber] = FiberMainFuncEnd(@)]
                     /\ t_fiber' = [t_fiber EXCEPT ![th] = t_thread_fiber[th]]
                     /\ mainst' = [mainst EXCEPT !.pc = "stop_swap"]
                ELSE UNCHANGED <<fibers, t_fiber, mainst>>
             /\ UNCHANGED <<m_idleThreadCount, f_thread>>
        ELSE /\ m_idleThreadCount' = m_idleThreadCount + 1
             /\ fibers' = [fibers EXCEPT ![idle] = FiberResume(@)]
             /\ t_fiber' = [t_fiber EXCEPT ![th] = idle]
             /\ f_thread' = [f_thread EXCEPT ![idle] = th]
             /\ wk' = [wk EXCEPT ![th].pc = "idle", ![th].cur = idle]
             /\ UNCHANGED mainst
    /\ UNCHANGED <<t_thread_fiber, crash, testVars, ioVars, ctor, m_rootFiber, m_stopping,
                   m_tasks, m_activeThreadCount, m_threads, t_scheduler_fiber,
                   taskLog>>

\* Is another thread still inside the swapcontext that saves f's context?
Switching(f, th) == \E o \in Threads : o # th /\ wk[o].pc = "swap" /\ wk[o].cur = f

\* Lines 207-226: a fiber task is resumed; for a callback task a fiber is made
\* for it (cb_fiber is always empty here, line 226 reset it) and resumed.
WExec(th) ==
    /\ crash = "none"
    /\ wk[th].pc = "exec"
    /\ LET e    == wk[th].task
           f    == IF e.isCb THEN TaskF(e.sid) ELSE e.fiber
           heap == IF e.isCb THEN Alloc(fibers, f, NewFiberObj(e.cb, f, TRUE)) ELSE fibers
       IN  IF ~ResumePre(heap[f])
           THEN /\ crash' \in {"assert", "undefined"}
                /\ UNCHANGED <<fibers, t_fiber, f_thread, wk, taskLog>>
           ELSE IF Switching(f, th)
           THEN /\ crash' = "undefined"
                /\ UNCHANGED <<fibers, t_fiber, f_thread, wk, taskLog>>
           ELSE /\ fibers' = [heap EXCEPT ![f] = FiberResume(@)]
                /\ t_fiber' = [t_fiber EXCEPT ![th] = f]
                /\ f_thread' = IF e.isCb THEN Alloc(f_thread, f, th)
                               ELSE [f_thread EXCEPT ![f] = th]
                /\ wk' = [wk EXCEPT ![th].pc = "run", ![th].cur = f, ![th].task = NoTask]
                /\ taskLog' = [taskLog EXCEPT ![e.sid].run = @ + 1]
                /\ UNCHANGED crash
    /\ UNCHANGED <<t_thread_fiber, testVars, ioVars, ctor, m_rootFiber, m_stopping, m_tasks,
                   m_activeThreadCount, m_idleThreadCount, m_threads,
                   t_scheduler_fiber, mainst>>

\* The running task makes its next call: Scheduler::GetThis()->schedule(
\* Fiber::GetThis()), schedule(cb, GetThreadId()), yield(), or it returns and
\* MainFunc ends it. yield() changes the state and then switches context.
WBody(th) ==
    /\ crash = "none"
    /\ wk[th].pc = "run"
    /\ LET f   == wk[th].cur
           op  == NextOp(fibers[f])
           sid == Len(taskLog) + 1
       IN  CASE op = "schedself" ->
                    /\ m_tasks' = Enqueue(m_tasks, FiberTask(sid, f, AnyThread))
                    /\ taskLog' = Append(taskLog, NewLog(AnyThread, th))
                    /\ fibers' = [fibers EXCEPT ![f].pc = @ + 1]
                    /\ UNCHANGED <<t_fiber, wk>>
             [] op = "spawn" ->
                    /\ m_tasks' = Enqueue(m_tasks, CbTask(sid, PlainBody, th))
                    /\ taskLog' = Append(taskLog, NewLog(th, th))
                    /\ fibers' = [fibers EXCEPT ![f].pc = @ + 1]
                    /\ UNCHANGED <<t_fiber, wk>>
             [] op = "yield" ->
                    /\ fibers' = [fibers EXCEPT ![f] = FiberYield([@ EXCEPT !.pc = @ + 1])]
                    /\ t_fiber' = [t_fiber EXCEPT ![th] = t_thread_fiber[th]]
                    /\ wk' = [wk EXCEPT ![th].pc = "swap"]
                    /\ UNCHANGED <<m_tasks, taskLog>>
             [] OTHER ->
                    /\ fibers' = [fibers EXCEPT ![f] = FiberMainFuncEnd(@)]
                    /\ t_fiber' = [t_fiber EXCEPT ![th] = t_thread_fiber[th]]
                    /\ wk' = [wk EXCEPT ![th].pc = "swap"]
                    /\ UNCHANGED <<m_tasks, taskLog>>
    /\ UNCHANGED <<t_thread_fiber, f_thread, crash, testVars, ioVars, ctor, m_rootFiber,
                   m_stopping, m_activeThreadCount, m_idleThreadCount, m_threads,
                   t_scheduler_fiber, mainst>>

\* swapcontext of yield() has saved the fiber's context: resume() returns in run().
WSwap(th) ==
    /\ crash = "none"
    /\ wk[th].pc = "swap"
    /\ wk' = [wk EXCEPT ![th].pc = "ret", ![th].cur = nullptr]
    /\ UNCHANGED <<fiberVars, testVars, ioVars, ctor, m_rootFiber, m_stopping, m_tasks,
                   m_activeThreadCount, m_idleThreadCount, m_threads,
                   t_scheduler_fiber, mainst, taskLog>>

\* Lines 211 and 225: --m_activeThreadCount, and back to the top of the loop.
WRet(th) ==
    /\ crash = "none"
    /\ wk[th].pc = "ret"
    /\ m_activeThreadCount' = m_activeThreadCount - 1
    /\ wk' = [wk EXCEPT ![th].pc = "scan"]
    /\ UNCHANGED <<fiberVars, testVars, ioVars, ctor, m_rootFiber, m_stopping, m_tasks,
                   m_idleThreadCount, m_threads, t_scheduler_fiber, mainst, taskLog>>

\* Scheduler::idle() in the idle fiber: while (!stopping()) yield(); back in
\* run() the idle count is lowered (line 238).
WIdle(th) ==
    /\ crash = "none"
    /\ wk[th].pc = "idle"
    /\ LET idle == wk[th].idle_fiber IN
        fibers' = [fibers EXCEPT ![idle] =
                     IF stopping THEN FiberMainFuncEnd(@) ELSE FiberYield(@)]
    /\ t_fiber' = [t_fiber EXCEPT ![th] = t_thread_fiber[th]]
    /\ m_idleThreadCount' = m_idleThreadCount - 1
    /\ wk' = [wk EXCEPT ![th].pc = "scan", ![th].cur = nullptr]
    /\ UNCHANGED <<t_thread_fiber, f_thread, crash, testVars, ioVars, ctor, m_rootFiber,
                   m_stopping, m_tasks, m_activeThreadCount, m_threads,
                   t_scheduler_fiber, mainst, taskLog>>

Next ==
    \/ MSchedule
    \/ MStart
    \/ MStop
    \/ MStopSwap
    \/ MStopJoin
    \/ \E th \in Threads :
        \/ WEnter(th)
        \/ WTake(th)
        \/ WNoTask(th)
        \/ WExec(th)
        \/ WBody(th)
        \/ WSwap(th)
        \/ WRet(th)
        \/ WIdle(th)

Spec == InitSched /\ [][Next]_vars

-----------------------------------------------------------------------------
(* IOManager: the fd contexts, the reactor and the timers, as used by the
   tasks of an IOManager(MaxThreads, false) and by the thread that owns it *)

MaxFd    == 1       \* fds 1..MaxFd are in use
MaxIoOps == 4       \* addEvent/delEvent/cancelEvent/cancelAll calls in a run
MaxWatches == 1     \* addEvent calls in a run of the reactor
MaxTimers == 1      \* addTimer calls in a run

READ     == "READ"
WRITE    == "WRITE"
IOEvents == {READ, WRITE}
Fds      == 1..MaxFd
IOThreads == 1..MaxThreads
TickleFd == 0       \* m_tickleFds[0], the read end of the self-pipe

\* Scheduler::GetThis() on a worker thread of the IOManager.
IOM  == <<"iom", 0>>
NoCb == "none"

\* FdContext::EventContext after resetEventContext, and a new FdContext.  reg
\* is a ghost: the number of the addEvent call that filled the slot.
resetEventContext == [scheduler |-> nullptr, fiber |-> nullptr, cb |-> NoCb,
                      reg |-> 0]
NewFdContext == [events |-> {}, read |-> resetEventContext,
                 write |-> resetEventContext]

\* FdContext::getEventContext: the member the event selects.
getEventContext(event) == IF event = READ THEN "read" ELSE "write"

\* Mutex::unlock() by thread th on a mutex whose state is m.  Unlocking a
\* mutex the thread does not hold is undefined: the mutex ends up free (what
\* a default pthread mutex does) or is left as it is.
MutexUnlock(m, th) == IF m = <<th>> THEN {<<>>} ELSE {<<>>, m}

\* The locals of a worker: where it is, the task it runs, the call the task is
\* in (fd_ctx is used where the table of fd contexts changes, SpecTable), what the last epoll_wait of its idle() put into `events`, whether its
\* idle fiber has ended.  The rest are ghosts of the call: the fd context
\* and the number of schedule calls for the fd it found (pre, nsched), what
\* it returns, what it scheduled, by how much its steps have changed
\* m_pendingEventCount (dec), whether no other call has been between lock and
\* unlock of the fd context at the same time (excl), and (prev) the addEvent
\* the task has just made, no call having locked the fd context since.
NoPrev == [fd |-> 0, event |-> READ, reg |-> 0, events |-> {}, dec |-> 0,
           nsched |-> 0]
NoCall == [pc |-> "sched", task |-> NoTask, op |-> "none", fd |-> 0,
           fd_ctx |-> nullptr, event |-> READ, cb |-> NoCb, reg |-> 0, trig |-> <<>>, seen |-> {},
           idle_term |-> FALSE, pre |-> NewFdContext, ret |-> "none",
           nsched |-> 0, fired |-> <<>>, dec |-> 0,
           excl |-> FALSE, prev |-> NoPrev]

\* Ghost: the number of schedule calls made so far by triggerEvent for fd.
NSched(fd) == Cardinality({i \in DOMAIN io_scheduled : io_scheduled[i].fd = fd})

\* Ghost: what the call found when it had locked the fd context.
Snap(l) == [l EXCEPT !.pre = m_fdContexts[l.fd], !.nsched = NSched(l.fd)]

\* Ghost: the call that returns is an addEvent that succeeded on a direction
\* that was not registered, and had the fd context to itself.
FreshAdd(l) ==
    IF l.op = "addEvent" /\ l.ret = "true" /\ l.event \notin l.pre.events
       /\ l.excl
    THEN [fd |-> l.fd, event |-> l.event, reg |-> l.reg, events |-> l.pre.events,
          dec |-> l.dec, nsched |-> l.nsched]
    ELSE NoPrev

\* The worker is back in the body of its task.
EndCall(l) ==
    [NoCall EXCEPT !.pc = "task", !.task = l.task, !.prev = FreshAdd(l)]

\* IOManager::stopping()
IOStopping == m_pendingEventCount = 0 /\ stopping

\* IOManager::tickle(): a byte is written to the pipe when a thread is idle.
Tickle(ready) ==
    IF m_idleThreadCount > 0 THEN ready \cup {<<TickleFd, READ>>} ELSE ready

\* Scheduler::schedule: tickle() is called when the queue q was empty before
\* the task was pushed.
ScheduleTickle(q, ready) == IF q = <<>> THEN Tickle(ready) ELSE ready

\* The IOManager(MaxThreads, false) after construction, its workers in run().
InitIOManager ==
    /\ fibers = [f \in {TaskF(th) : th \in IOThreads} |->
                    FiberResume(NewFiberObj(<<>>, f, TRUE))]
    /\ t_fiber = [th \in IOThreads |-> TaskF(th)]
    /\ t_thread_fiber = [th \in IOThreads |-> MainF(th)]
    /\ f_thread = [f \in {TaskF(th) : th \in IOThreads} |-> f[2]]
    /\ crash = "none"
    /\ tpc = <<>>
    /\ tfib = <<>>
    /\ thist = <<>>
    /\ ctor = [threads |-> MaxThreads, use_caller |-> FALSE]
    /\ m_rootFiber = nullptr
    /\ m_stopping = FALSE
    /\ m_tasks = <<>>
    /\ m_activeThreadCount = 0
    /\ m_idleThreadCount = 0
    /\ m_threads = IOThreads
    /\ t_scheduler_fiber = <<>>
    /\ wk = <<>>
    /\ mainst = <<>>
    /\ taskLog = <<>>
    /\ m_fdContexts = [fd \in Fds |-> NewFdContext]
    /\ fd_mutex = [fd \in Fds |-> <<>>]
    /\ m_pendingEventCount = 0
    /\ epoll_interest = [fd \in Fds |-> {}]
    /\ epoll_ready = {}
    /\ io = [th \in IOThreads |-> NoCall]
    /\ io_scheduled = <<>>
    /\ io_ops = 0
    /\ ndebug \in BOOLEAN
    /\ m_timers = 0
    /\ io_main = [scheduled |-> 0, timers |-> 0, pc |-> "user"]

\* An IOManager whose tasks make no hooked call and whose timers are counted.
InitIO ==
    /\ InitIOManager
    /\ HookUnused(0..MaxThreads)
    /\ TimerUnused

\* Ghost record of one Scheduler::schedule call: the event it is for (fd 0 for
\* a task of the owner or a timer), the callback or fiber handed over, and the
\* number of the addEvent call that had stored it.
Scheduled(fd, ev, cb, fiber, reg) ==
    [fd |-> fd, event |-> ev, cb |-> cb, fiber |-> fiber, reg |-> reg]

\* idle(): schedule(cb) for each of the n expired timers, the first of them
\* being call number base + 1.
RECURSIVE ScheduleTimers(_, _, _)
ScheduleTimers(q, base, n) ==
    IF n = 0 THEN q
    ELSE ScheduleTimers(Enqueue(q, CbTask(base + 1, <<"timer">>, AnyThread)),
                        base + 1, n - 1)

\* What no step of the IOManager changes.
ioRest == <<fibers, t_fiber, t_thread_fiber, f_thread, testVars, ctor,
            m_rootFiber, m_threads, t_scheduler_fiber, wk, mainst, taskLog,
            ndebug, hookVars, timerVars>>
ioFd     == <<m_fdContexts, fd_mutex, m_pendingEventCount, epoll_interest>>
ioQueue  == <<m_tasks, m_stopping, m_activeThreadCount, m_idleThreadCount>>
ioGhost  == <<io_scheduled, io_ops>>
ioMainTm == <<m_timers, io_main>>

\* The owner of the IOManager calls iom.schedule(cb): the task is pushed, and
\* tickle() is called when the queue was empty.
IOMainSchedule ==
    /\ crash = "none"
    /\ io_main.pc = "user"
    /\ io_main.scheduled < MaxMainTasks
    /\ m_tasks' = Enqueue(m_tasks,
                          CbTask(Len(io_scheduled) + 1, <<"user">>, AnyThread))
    /\ io_scheduled' = Append(io_scheduled, Scheduled(0, READ, "user", nullptr, 0))
    /\ epoll_ready' = ScheduleTickle(m_tasks, epoll_ready)
    /\ io_main' = [io_main EXCEPT !.scheduled = @ + 1]
    /\ UNCHANGED <<crash, ioFd, io, io_ops, m_timers, m_stopping,
                   m_activeThreadCount, m_idleThreadCount, ioRest>>

\* Scheduler::run() of a worker finds a task it may run: the task is erased,
\* m_activeThreadCount incremented, tickle() called when tasks remain behind
\* it, and the task is resumed.
IOTake(th) ==
    /\ crash = "none"
    /\ io[th].pc = "sched"
    /\ FirstFor(m_tasks, th) # 0
    /\ LET i == FirstFor(m_tasks, th) IN
        /\ m_tasks' = Erase(m_tasks, i)
        /\ io' = [io EXCEPT ![th].pc = "task", ![th].task = m_tasks[i]]
        /\ epoll_ready' = IF i < Len(m_tasks) THEN Tickle(epoll_ready)
                          ELSE epoll_ready
    /\ m_activeThreadCount' = m_activeThreadCount + 1
    /\ UNCHANGED <<crash, ioFd, ioGhost, ioMainTm, m_stopping,
                   m_idleThreadCount, ioRest>>

\* The task returns (or, having registered its fiber, yields): run() is back
\* at the top of its loop after --m_activeThreadCount.
IOTaskDone(th) ==
    /\ crash = "none"
    /\ io[th].pc = "task"
    /\ io' = [io EXCEPT ![th].pc = "sched", ![th].task = NoTask,
                        ![th].prev = NoPrev]
    /\ m_activeThreadCount' = m_activeThreadCount - 1
    /\ UNCHANGED <<crash, ioFd, epoll_ready, ioGhost, ioMainTm, m_tasks,
                   m_stopping, m_idleThreadCount, ioRest>>

\* The cb argument of the call: a READ is watched with a callback, as the test
\* does, a WRITE with the calling fiber (no callback), as hook.cpp does.
WatchCb(op, ev) == IF op = "addEvent" /\ ev = READ THEN "cb" ELSE NoCb

\* The running task calls one of `ops` on the IOManager, when fewer than max
\* calls have been made; the lookup of m_fdContexts[fd] under the read lock
\* finds the context.
IOCallOf(th, ops, max) ==
    /\ crash = "none"
    /\ io[th].pc = "task"
    /\ io_ops < max
    /\ \E op \in ops, fd \in Fds, ev \in IOEvents :
        /\ op = "cancelAll" => ev = READ
        /\ io' = [io EXCEPT ![th].pc = "lock", ![th].op = op, ![th].fd = fd,
                            ![th].event = ev, ![th].cb = WatchCb(op, ev),
                            ![th].reg = io_ops + 1,
                            ![th].prev = IF op = "delEvent" /\ @.fd = fd
                                            /\ @.event = ev
                                         THEN @ ELSE NoPrev]
    /\ io_ops' = io_ops + 1
    /\ UNCHANGED <<crash, ioFd, epoll_ready, io_scheduled, ioMainTm, ioQueue,
                   ioRest>>

\* A task calls addEvent, delEvent, cancelEvent or cancelAll.
IOCall(th) ==
    IOCallOf(th, {"addEvent", "delEvent", "cancelEvent", "cancelAll"}, MaxIoOps)

\* A task registers an event, as watch_io_read of the test does.
IOWatch(th) == IOCallOf(th, {"addEvent"}, MaxWatches)

\* Ghost: worker o is between the lock and the unlock of fd's context.
InCritical(o, fd) ==
    /\ io[o].fd = fd
    /\ io[o].pc \in {"locked", "add_slot", "del_reset", "trigger",
                     "trigger_schedule", "trigger_reset", "unlock"}

\* FdContext::MutexType::Lock lock2(fd_ctx->mutex)
IOLock(th) ==
    /\ crash = "none"
    /\ io[th].pc = "lock"
    /\ fd_mutex[io[th].fd] = <<>>
    /\ fd_mutex' = [fd_mutex EXCEPT ![io[th].fd] = <<th>>]
    /\ LET fd == io[th].fd IN
       io' = [o \in IOThreads |->
                IF o = th
                THEN [io[o] EXCEPT !.pc = "locked",
                        !.excl = \A x \in IOThreads \ {th} : ~InCritical(x, fd)]
                ELSE IF InCritical(o, fd) THEN [io[o] EXCEPT !.excl = FALSE]
                ELSE IF io[o].prev.fd = fd THEN [io[o] EXCEPT !.prev = NoPrev]
                ELSE io[o]]
    /\ UNCHANGED <<crash, m_fdContexts, m_pendingEventCount, epoll_interest,
                   epoll_ready, ioGhost, ioMainTm, ioQueue, ioRest>>

\* addEvent from the duplicate check to fd_ctx->events |= event.  The assert
\* of the duplicate check ends the process unless the build has NDEBUG.
IOAddEvent(th) ==
    /\ crash = "none"
    /\ io[th].pc = "locked" /\ io[th].op = "addEvent"
    /\ LET fd == io[th].fd
           ev == io[th].event
           dup == ev \in m_fdContexts[fd].events
       IN
       IF dup /\ ~ndebug
       THEN /\ crash' = "assert"
            /\ io' = [io EXCEPT ![th] = Snap(io[th])]
            /\ UNCHANGED <<m_fdContexts, m_pendingEventCount, epoll_interest>>
       ELSE \E ok \in BOOLEAN :
            /\ UNCHANGED crash
            /\ IF ok
               THEN /\ epoll_interest' = [epoll_interest EXCEPT ![fd] =
                                            m_fdContexts[fd].events \cup {ev}]
                    /\ m_pendingEventCount' = m_pendingEventCount + 1
                    /\ m_fdContexts' = [m_fdContexts EXCEPT ![fd].events = @ \cup {ev}]
                    /\ io' = [io EXCEPT ![th] =
                                [Snap(io[th]) EXCEPT !.pc = "add_slot",
                                    !.dec = @ + m_pendingEventCount'
                                              - m_pendingEventCount]]
               ELSE /\ io' = [io EXCEPT ![th] =
                                [Snap(io[th]) EXCEPT !.pc = "unlock",
                                                     !.ret = "false"]]
                    /\ UNCHANGED <<m_fdContexts, m_pendingEventCount, epoll_interest>>
    /\ UNCHANGED <<fd_mutex, epoll_ready, ioGhost, ioMainTm, ioQueue, ioRest>>

\* addEvent from getEventContext to return 0.
IOAddSlot(th) ==
    /\ crash = "none"
    /\ io[th].pc = "add_slot"
    /\ LET fd == io[th].fd
           m == getEventContext(io[th].event)
           event_ctx == m_fdContexts[fd][m]
           used == event_ctx.scheduler # nullptr \/ event_ctx.fiber # nullptr
                    \/ event_ctx.cb # NoCb
       IN
       IF used /\ ~ndebug
       THEN /\ crash' = "assert"
            /\ UNCHANGED <<m_fdContexts, io>>
       ELSE /\ UNCHANGED crash
            /\ m_fdContexts' = [m_fdContexts EXCEPT ![fd][m] =
                IF io[th].cb # NoCb
                THEN [event_ctx EXCEPT !.scheduler = IOM, !.cb = io[th].cb,
                                       !.reg = io[th].reg]
                ELSE [event_ctx EXCEPT !.scheduler = IOM, !.fiber = t_fiber[th],
                                       !.reg = io[th].reg]]
            /\ io' = [io EXCEPT ![th].pc = "unlock", ![th].ret = "true"]
    /\ UNCHANGED <<fd_mutex, m_pendingEventCount, epoll_interest, epoll_ready,
                   ioGhost, ioMainTm, ioQueue, ioRest>>

\* delEvent from the check of the event to fd_ctx->events = new_events.  When
\* the event is not registered the code unlocks the mutex itself and returns
\* with the scoped lock still alive.
IODelEvent(th) ==
    /\ crash = "none"
    /\ io[th].pc = "locked" /\ io[th].op = "delEvent"
    /\ LET fd == io[th].fd
           ev == io[th].event
           new_events == m_fdContexts[fd].events \ {ev}
           l == Snap(io[th])
       IN
       IF ev \notin m_fdContexts[fd].events
       THEN /\ \E m \in MutexUnlock(fd_mutex[fd], th) :
                fd_mutex' = [fd_mutex EXCEPT ![fd] = m]
            /\ io' = [io EXCEPT ![th] = [l EXCEPT !.pc = "unlock", !.ret = "false"]]
            /\ UNCHANGED <<m_fdContexts, m_pendingEventCount, epoll_interest>>
       ELSE \E ok \in BOOLEAN :
            /\ UNCHANGED fd_mutex
            /\ IF ok
               THEN /\ epoll_interest' = [epoll_interest EXCEPT ![fd] = new_events]
                    /\ m_pendingEventCount' = m_pendingEventCount - 1
                    /\ m_fdContexts' = [m_fdContexts EXCEPT ![fd].events = new_events]
                    /\ io' = [io EXCEPT ![th] =
                                [l EXCEPT !.pc = "del_reset",
                                    !.dec = @ + m_pendingEventCount'
                                              - m_pendingEventCount]]
               ELSE /\ io' = [io EXCEPT ![th] =
                                [l EXCEPT !.pc = "unlock", !.ret = "false"]]
                    /\ UNCHANGED <<m_fdContexts, m_pendingEventCount, epoll_interest>>
    /\ UNCHANGED <<crash, epoll_ready, ioGhost, ioMainTm, ioQueue, ioRest>>

\* Mutant of IODelReset: delEvent returns true without resetting the slot.
DelKeepsSlot(th) ==
    /\ crash = "none"
    /\ io[th].pc = "del_reset"
    /\ io' = [io EXCEPT ![th].pc = "unlock", ![th].ret = "true"]
    /\ UNCHANGED <<crash, m_fdContexts, fd_mutex, m_pendingEventCount,
                   epoll_interest, epoll_ready, ioGhost, ioMainTm, ioQueue, ioRest>>

\* delEvent: fd_ctx->resetEventContext(event_ctx); return true.
IODelReset(th) ==
    /\ crash = "none"
    /\ io[th].pc = "del_reset"
    /\ m_fdContexts' = [m_fdContexts EXCEPT
            ![io[th].fd][getEventContext(io[th].event)] = resetEventContext]
    /\ io' = [io EXCEPT ![th].pc = "unlock", ![th].ret = "true"]
    /\ UNCHANGED <<crash, fd_mutex, m_pendingEventCount, epoll_interest,
                   epoll_ready, ioGhost, ioMainTm, ioQueue, ioRest>>

\* cancelEvent from the check of the event to the call of triggerEvent; when
\* the event is not registered the code unlocks the mutex itself and returns
\* with the scoped lock still alive.
IOCancelEvent(th) ==
    /\ crash = "none"
    /\ io[th].pc = "locked" /\ io[th].op = "cancelEvent"
    /\ LET fd == io[th].fd
           ev == io[th].event
           new_events == m_fdContexts[fd].events \ {ev}
           l == Snap(io[th])
       IN
       IF ev \notin m_fdContexts[fd].events
       THEN /\ \E m \in MutexUnlock(fd_mutex[fd], th) :
                fd_mutex' = [fd_mutex EXCEPT ![fd] = m]
            /\ io' = [io EXCEPT ![th] = [l EXCEPT !.pc = "unlock", !.ret = "false"]]
            /\ UNCHANGED epoll_interest
       ELSE \E ok \in BOOLEAN :
            /\ UNCHANGED fd_mutex
            /\ IF ok
               THEN /\ epoll_interest' = [epoll_interest EXCEPT ![fd] = new_events]
                    /\ io' = [io EXCEPT ![th] =
                                [l EXCEPT !.pc = "trigger", !.trig = <<ev>>]]
               ELSE /\ io' = [io EXCEPT ![th] =
                                [l EXCEPT !.pc = "unlock", !.ret = "false"]]
                    /\ UNCHANGED epoll_interest
    /\ UNCHANGED <<crash, m_fdContexts, m_pendingEventCount, epoll_ready,
                   ioGhost, ioMainTm, ioQueue, ioRest>>

\* cancelAll from the check of fd_ctx->events to the first triggerEvent; when
\* epoll_ctl fails the code unlocks the mutex itself before it returns.
IOCancelAll(th) ==
    /\ crash = "none"
    /\ io[th].pc = "locked" /\ io[th].op = "cancelAll"
    /\ LET fd == io[th].fd
           l == Snap(io[th])
       IN
       IF m_fdContexts[fd].events = {}
       THEN /\ io' = [io EXCEPT ![th] = [l EXCEPT !.pc = "unlock", !.ret = "false"]]
            /\ UNCHANGED <<fd_mutex, epoll_interest>>
       ELSE \E ok \in BOOLEAN :
            IF ok
            THEN /\ epoll_interest' = [epoll_interest EXCEPT ![fd] = {}]
                 /\ io' = [io EXCEPT ![th] =
                             [l EXCEPT !.pc = "trigger", !.trig = <<READ, WRITE>>]]
                 /\ UNCHANGED fd_mutex
            ELSE /\ \E m \in MutexUnlock(fd_mutex[fd], th) :
                     fd_mutex' = [fd_mutex EXCEPT ![fd] = m]
                 /\ io' = [io EXCEPT ![th] =
                             [l EXCEPT !.pc = "unlock", !.ret = "false"]]
                 /\ UNCHANGED epoll_interest
    /\ UNCHANGED <<crash, m_fdContexts, m_pendingEventCount, epoll_ready,
                   ioGhost, ioMainTm, ioQueue, ioRest>>

\* Mutant of AfterTrigger: cancelAll returns after its first triggerEvent.
ReturnAfterFirst(l) ==
    [l EXCEPT !.trig = <<>>, !.pc = "unlock", !.ret = "true"]

\* The call after the last triggerEvent of cancelEvent or cancelAll.
AfterTrigger(l) ==
    [l EXCEPT !.trig = Tail(@),
              !.pc = IF Len(l.trig) = 1 THEN "unlock" ELSE "trigger",
              !.ret = IF Len(l.trig) = 1 THEN "true" ELSE l.ret]

\* FdContext::triggerEvent up to events = events & ~event, for the next event
\* of cancelEvent or cancelAll; cancelAll skips an event that is not
\* registered and asserts events == 0 after the last one.
IOTriggerEvent(th) ==
    /\ crash = "none"
    /\ io[th].pc = "trigger"
    /\ LET fd == io[th].fd
           ev == Head(io[th].trig)
           last == Len(io[th].trig) = 1
           registered == ev \in m_fdContexts[fd].events
           left == m_fdContexts[fd].events \ {ev}
       IN
       IF io[th].op = "cancelAll" /\ ~registered
       THEN IF last /\ left # {} /\ ~ndebug
            THEN /\ crash' = "assert"
                 /\ UNCHANGED <<m_fdContexts, io>>
            ELSE /\ io' = [io EXCEPT ![th] = AfterTrigger(io[th])]
                 /\ UNCHANGED <<crash, m_fdContexts>>
       ELSE IF ~registered /\ ~ndebug
            THEN /\ crash' = "assert"
                 /\ UNCHANGED <<m_fdContexts, io>>
            ELSE /\ m_fdContexts' = [m_fdContexts EXCEPT ![fd].events = left]
                 /\ io' = [io EXCEPT ![th].pc = "trigger_schedule"]
                 /\ UNCHANGED crash
    /\ UNCHANGED <<fd_mutex, m_pendingEventCount, epoll_interest, epoll_ready,
                   ioGhost, ioMainTm, ioQueue, ioRest>>

\* Mutant of IOTriggerSchedule: triggerEvent hands nothing to schedule.
TriggerNoSchedule(th) ==
    /\ crash = "none"
    /\ io[th].pc = "trigger_schedule"
    /\ io' = [io EXCEPT ![th].pc = "trigger_reset"]
    /\ UNCHANGED <<crash, ioFd, epoll_ready, ioGhost, ioMainTm, ioQueue, ioRest>>

\* FdContext::triggerEvent: ctx.scheduler->schedule(ctx.cb) or
\* schedule(ctx.fiber); a slot without a scheduler is a call through a null
\* pointer.
IOTriggerSchedule(th) ==
    /\ crash = "none"
    /\ io[th].pc = "trigger_schedule"
    /\ LET fd == io[th].fd
           ev == Head(io[th].trig)
           ctx == m_fdContexts[fd][getEventContext(ev)]
           sid == Len(io_scheduled) + 1
       IN
       IF ctx.scheduler = nullptr
       THEN /\ crash' = "undefined"
            /\ UNCHANGED <<m_tasks, io_scheduled, epoll_ready, io>>
       ELSE /\ UNCHANGED crash
            /\ m_tasks' = Enqueue(m_tasks,
                    IF ctx.cb # NoCb
                    THEN CbTask(sid, <<"event", fd, ev>>, AnyThread)
                    ELSE FiberTask(sid, ctx.fiber, AnyThread))
            /\ io_scheduled' = Append(io_scheduled,
                    Scheduled(fd, ev, ctx.cb,
                              IF ctx.cb # NoCb THEN nullptr ELSE ctx.fiber,
                              ctx.reg))
            /\ epoll_ready' = ScheduleTickle(m_tasks, epoll_ready)
            /\ io' = [io EXCEPT ![th].pc = "trigger_reset",
                                ![th].fired = Append(@, ev)]
    /\ UNCHANGED <<ioFd, io_ops, ioMainTm, m_stopping, m_activeThreadCount,
                   m_idleThreadCount, ioRest>>

\* Mutant of IOTriggerReset: triggerEvent leaves the slot as it is.
TriggerNoReset(th) ==
    /\ crash = "none"
    /\ io[th].pc = "trigger_reset"
    /\ m_pendingEventCount' = m_pendingEventCount - 1
    /\ io' = [io EXCEPT ![th] =
                [AfterTrigger(io[th]) EXCEPT
                    !.dec = @ + m_pendingEventCount' - m_pendingEventCount]]
    /\ UNCHANGED <<crash, m_fdContexts, fd_mutex, epoll_interest, epoll_ready,
                   ioGhost, ioMainTm, ioQueue, ioRest>>

\* FdContext::triggerEvent: resetEventContext(ctx), and the
\* --m_pendingEventCount of the caller after it.
IOTriggerReset(th) ==
    /\ crash = "none"
    /\ io[th].pc = "trigger_reset"
    /\ LET fd == io[th].fd
           ev == Head(io[th].trig)
           last == Len(io[th].trig) = 1
       IN
       /\ m_fdContexts' = [m_fdContexts EXCEPT
                             ![fd][getEventContext(ev)] = resetEventContext]
       /\ m_pendingEventCount' = m_pendingEventCount - 1
       /\ IF io[th].op = "cancelAll" /\ last /\ m_fdContexts[fd].events # {}
             /\ ~ndebug
          THEN /\ crash' = "assert"
               /\ UNCHANGED io
          ELSE /\ UNCHANGED crash
               /\ io' = [io EXCEPT ![th] =
                           [AfterTrigger(io[th]) EXCEPT
                               !.dec = @ + m_pendingEventCount'
                                         - m_pendingEventCount]]
    /\ UNCHANGED <<fd_mutex, epoll_interest, epoll_ready, ioGhost, ioMainTm,
                   ioQueue, ioRest>>

\* The return of the call: the destructor of the scoped lock unlocks the
\* mutex, whether or not the code has unlocked it already; the task goes on.
IOReturn(th) ==
    /\ crash = "none"
    /\ io[th].pc = "unlock"
    /\ \E m \in MutexUnlock(fd_mutex[io[th].fd], th) :
        fd_mutex' = [fd_mutex EXCEPT ![io[th].fd] = m]
    /\ io' = [io EXCEPT ![th] = EndCall(io[th])]
    /\ UNCHANGED <<crash, m_fdContexts, m_pendingEventCount, epoll_interest,
                   epoll_ready, ioGhost, ioMainTm, ioQueue, ioRest>>

\* The owner adds a timer; it is the first of the queue, so
\* onTimerInsertedAtFront() calls tickle().
IOAddTimer ==
    /\ crash = "none"
    /\ io_main.pc = "user"
    /\ io_main.timers < MaxTimers
    /\ m_timers' = m_timers + 1
    /\ io_main' = [io_main EXCEPT !.timers = @ + 1]
    /\ epoll_ready' = Tickle(epoll_ready)
    /\ UNCHANGED <<crash, ioFd, io, ioGhost, ioQueue, ioRest>>

\* Scheduler::stop() of the owner (the destructor of the IOManager) up to the
\* join: m_stopping is set and tickle() called for every thread.
IOMainStop ==
    /\ crash = "none"
    /\ io_main.pc = "user"
    /\ m_stopping' = TRUE
    /\ epoll_ready' = Tickle(epoll_ready)
    /\ io_main' = [io_main EXCEPT !.pc = "stop_join"]
    /\ UNCHANGED <<crash, ioFd, io, ioGhost, m_timers, m_tasks,
                   m_activeThreadCount, m_idleThreadCount, ioRest>>

\* Scheduler::stop(): every join() has returned.
IOMainJoin ==
    /\ crash = "none"
    /\ io_main.pc = "stop_join"
    /\ \A th \in IOThreads : io[th].pc = "exit"
    /\ io_main' = [io_main EXCEPT !.pc = "stopped"]
    /\ UNCHANGED <<crash, ioFd, epoll_ready, io, ioGhost, m_timers, ioQueue,
                   ioRest>>

\* Scheduler::run(), lines 166-205: the scan of the queue under the mutex
\* finds no task for the thread, and the mutex is released.
IOScanNone(th) ==
    /\ crash = "none"
    /\ io[th].pc = "sched"
    /\ FirstFor(m_tasks, th) = 0
    /\ io' = [io EXCEPT ![th].pc = "no_task"]
    /\ UNCHANGED <<crash, ioFd, epoll_ready, ioGhost, ioMainTm, ioQueue, ioRest>>

\* Scheduler::run() has found no task: it leaves the loop when the idle fiber
\* has ended, else it resumes the idle fiber after ++m_idleThreadCount.
\* IOManager::idle() then tests stopping(): when it holds the idle fiber ends
\* and run() is back at the top of its loop, else idle() goes to epoll_wait.
IOIdleEnter(th) ==
    /\ crash = "none"
    /\ io[th].pc = "no_task"
    /\ IF io[th].idle_term
       THEN /\ io' = [io EXCEPT ![th].pc = "exit"]
            /\ UNCHANGED m_idleThreadCount
       ELSE IF IOStopping
            THEN /\ io' = [io EXCEPT ![th].pc = "sched", ![th].idle_term = TRUE]
                 /\ UNCHANGED m_idleThreadCount
            ELSE /\ io' = [io EXCEPT ![th].pc = "epoll_wait"]
                 /\ m_idleThreadCount' = m_idleThreadCount + 1
    /\ UNCHANGED <<crash, ioFd, epoll_ready, ioGhost, ioMainTm, m_tasks,
                   m_stopping, m_activeThreadCount, ioRest>>

\* One round of the inner do-while of idle(): epoll_wait returns the pending
\* edges (none after MAX_TIMEOUT) into `events` and their count into the rt of
\* the loop body, and the loop goes round again; only an error other than
\* EINTR leaves the loop.
IOEpollWait(th) ==
    /\ crash = "none"
    /\ io[th].pc = "epoll_wait"
    /\ \E err \in BOOLEAN :
        IF err
        THEN /\ io' = [io EXCEPT ![th].pc = "idle_dispatch"]
             /\ UNCHANGED epoll_ready
        ELSE /\ epoll_ready # {} \/ io[th].seen # {}
             /\ io' = [io EXCEPT ![th].seen = epoll_ready]
             /\ epoll_ready' = {}
    /\ UNCHANGED <<crash, ioFd, ioGhost, ioMainTm, ioQueue, ioRest>>

\* idle() after the inner loop: the callbacks of the expired timers are
\* scheduled; the rt of the outer scope is still 0, so the loop over the
\* returned events has no iteration; the idle fiber yields and run() is back
\* at the top of its loop after --m_idleThreadCount.
IOIdleDispatch(th) ==
    /\ crash = "none"
    /\ io[th].pc = "idle_dispatch"
    /\ \E expired \in 0..m_timers :
        /\ m_timers' = m_timers - expired
        /\ m_tasks' = ScheduleTimers(m_tasks, Len(io_scheduled), expired)
        /\ io_scheduled' = io_scheduled \o
                [i \in 1..expired |-> Scheduled(0, READ, "timer", nullptr, 0)]
        /\ epoll_ready' = IF expired > 0 THEN ScheduleTickle(m_tasks, epoll_ready)
                          ELSE epoll_ready
    /\ m_idleThreadCount' = m_idleThreadCount - 1
    /\ io' = [io EXCEPT ![th].pc = "sched", ![th].seen = {}]
    /\ UNCHANGED <<crash, ioFd, io_ops, io_main, m_stopping,
                   m_activeThreadCount, ioRest>>

\* The kernel: a watched fd becomes ready in a watched direction.
KernelReady(fd, ev) ==
    /\ crash = "none"
    /\ ev \in epoll_interest[fd]
    /\ <<fd, ev>> \notin epoll_ready
    /\ epoll_ready' = epoll_ready \cup {<<fd, ev>>}
    /\ UNCHANGED <<crash, ioFd, io, ioGhost, ioMainTm, ioQueue, ioRest>>

\* The steps of a call of the IOManager by the task of worker th.
IOCallSteps(th) ==
    \/ IOLock(th)
    \/ IOAddEvent(th)
    \/ IOAddSlot(th)
    \/ IODelEvent(th)
    \/ IODelReset(th)
    \/ IOCancelEvent(th)
    \/ IOCancelAll(th)
    \/ IOTriggerEvent(th)
    \/ IOTriggerSchedule(th)
    \/ IOTriggerReset(th)
    \/ IOReturn(th)

\* SpecIO: tasks on the workers of a running IOManager call addEvent,
\* delEvent, cancelEvent and cancelAll; no worker goes idle.
NextIO ==
    \/ IOMainSchedule
    \/ \E th \in IOThreads :
        \/ IOTake(th)
        \/ IOTaskDone(th)
        \/ IOCall(th)
        \/ IOCallSteps(th)

SpecIO == InitIO /\ [][NextIO]_vars

\* SpecReactor: the workers go idle, the kernel reports readiness, the owner
\* schedules tasks, adds timers and stops the IOManager; tasks register events.
NextReactor ==
    \/ IOMainSchedule
    \/ IOAddTimer
    \/ IOMainStop
    \/ IOMainJoin
    \/ \E th \in IOThreads :
        \/ IOTake(th)
        \/ IOTaskDone(th)
        \/ IOWatch(th)
        \/ IOLock(th)
        \/ IOAddEvent(th)
        \/ IOAddSlot(th)
        \/ IOReturn(th)
        \/ IOScanNone(th)
        \/ IOIdleEnter(th)
        \/ IOEpollWait(th)
        \/ IOIdleDispatch(th)
    \/ \E fd \in Fds, ev \in IOEvents : KernelReady(fd, ev)

SpecReactor == InitIO /\ [][NextReactor]_vars

-----------------------------------------------------------------------------
(* TimerManager: the timer set of timer.h, used by one thread that adds and
   cancels timers, drains the expired ones and invokes their callbacks *)

MaxNow      == 3    \* the clock reads 0..MaxNow
MaxMs       == 2    \* the ms argument of addTimer is in 0..MaxMs
MaxTmTimers == 2    \* timers created
MaxPasses   == 2    \* listExpiredCb calls
Witnesses   == {1}  \* the objects a conditional timer can be bound to
MaxWaits    == 1    \* epoll_wait calls of the idle loop
Infinite    == -1   \* (uint64_t)-1, ~0ull: no timeout
MAX_TIMEOUT == 5000 \* idle(): the cap of the wait, in ms
RolloverMs  == 3600000

\* Timer: m_recurring, m_ms, m_next (lines 63-73); cond is the witness of a
\* conditional timer, 0 for a plain one.
NewTimer(id, ms, recurring, cond, now) ==
    [id |-> id, next |-> now + ms, ms |-> ms, recurring |-> recurring,
     cond |-> cond]

\* detectClockRollover (line 162)
detectClockRollover(now, prev) == now < prev /\ now < prev - RolloverMs

\* Mutant of Expired: a timer whose deadline is now is not yet expired.
ExpiredStrict(ts, now, rollover) ==
    IF rollover THEN ts ELSE {t \in ts : t.next < now}

\* listExpiredCb: the timers one pass drains
Expired(ts, now, rollover) ==
    IF rollover THEN ts ELSE {t \in ts : t.next <= now}

\* listExpiredCb: the recurring ones among the drained go back into the set
Reinserted(expired, now) ==
    {[t EXCEPT !.next = now + t.ms] : t \in {e \in expired : e.recurring}}

\* Timer::Comparator (lines 79-86): by deadline, then by identity
TimerLess(a, b) == a.next < b.next \/ (a.next = b.next /\ a.id < b.id)

\* The timers of a set in the order of m_timers
RECURSIVE InSetOrder(_)
InSetOrder(ts) ==
    IF ts = {} THEN <<>>
    ELSE LET first == CHOOSE t \in ts : \A o \in ts \ {t} : TimerLess(t, o)
         IN  <<first>> \o InSetOrder(ts \ {first})

NoPass == [passes |-> 0, made |-> 0, now |-> 0, before |-> {}, drained |-> <<>>,
           after |-> {}, invoked |-> {}, suppressed |-> {},
           waits |-> 0, next_timeout |-> 0, timeout |-> 0]

InitTimer ==
    /\ fibers = <<>>
    /\ t_fiber = <<>>
    /\ t_thread_fiber = <<>>
    /\ f_thread = <<>>
    /\ crash = "none"
    /\ tpc = <<>>
    /\ tfib = <<>>
    /\ thist = <<>>
    /\ IOUnused
    /\ SchedUnused
    /\ HookUnused({})
    /\ tm_timers = {}
    /\ tm_now = 0
    /\ m_previouseTime = 0
    /\ tm_cbs = <<>>
    /\ tm_weak = Witnesses
    /\ tm_log = NoPass

tmRest == <<fiberVars, testVars, schedVars, m_fdContexts, fd_mutex,
            m_pendingEventCount, epoll_interest, epoll_ready, io, io_scheduled,
            io_ops, ndebug, m_timers, io_main, hookVars>>

\* addTimer(ms, cb, recurring) (lines 114-115) and addConditionTimer(ms, cb,
\* weak_cond, recurring) (lines 128-130): the deadline is now + ms.
TmAddTimer(ms, recurring, cond) ==
    /\ tm_log.made < MaxTmTimers
    /\ tm_timers' = tm_timers \cup
            {NewTimer(tm_log.made + 1, ms, recurring, cond, tm_now)}
    /\ tm_log' = [tm_log EXCEPT !.made = @ + 1]
    /\ UNCHANGED <<tm_now, m_previouseTime, tm_cbs, tm_weak, tmRest>>

\* Timer::cancel() (line 32) of a timer that is in the set
TmCancel(t) ==
    /\ t \in tm_timers
    /\ tm_timers' = tm_timers \ {t}
    /\ UNCHANGED <<tm_now, m_previouseTime, tm_cbs, tm_weak, tm_log, tmRest>>

\* The last shared_ptr to a witness goes away.
TmRelease(w) ==
    /\ w \in tm_weak
    /\ tm_weak' = tm_weak \ {w}
    /\ UNCHANGED <<tm_timers, tm_now, m_previouseTime, tm_cbs, tm_log, tmRest>>

\* Time passes: GetElapsedMS() reads CLOCK_MONOTONIC_RAW, which never goes back.
TmTick ==
    /\ tm_now < MaxNow
    /\ tm_now' = tm_now + 1
    /\ UNCHANGED <<tm_timers, m_previouseTime, tm_cbs, tm_weak, tm_log, tmRest>>

\* listExpiredCb(cbs) (lines 137-141): the expired timers leave the set in
\* its order, their callbacks are appended to cbs, the recurring ones are
\* inserted again.
TmListExpiredCb ==
    /\ tm_log.passes < MaxPasses
    /\ tm_timers # {}
    /\ LET rollover == detectClockRollover(tm_now, m_previouseTime)
           expired  == Expired(tm_timers, tm_now, rollover)
           drained  == InSetOrder(expired)
       IN  /\ tm_timers' = (tm_timers \ expired) \cup Reinserted(expired, tm_now)
           /\ tm_cbs' = tm_cbs \o [i \in 1..Len(drained) |->
                            [id |-> drained[i].id, cond |-> drained[i].cond]]
           /\ tm_log' = [tm_log EXCEPT !.passes = @ + 1, !.now = tm_now,
                                       !.before = tm_timers, !.drained = drained,
                                       !.after = tm_timers']
    /\ m_previouseTime' = tm_now
    /\ UNCHANGED <<tm_now, tm_weak, tmRest>>

\* Mutant of OnTimer: the callback is invoked whatever became of the witness.
OnTimerNoCheck(c, alive) == TRUE

\* The callback of a timer as handed out by listExpiredCb: that of a
\* conditional timer calls cb only if weak_cond can still be locked.
OnTimer(c, alive) == c.cond = 0 \/ c.cond \in alive

\* The thread that drained the timers invokes the next callback.
TmInvoke ==
    /\ tm_cbs # <<>>
    /\ LET c == Head(tm_cbs) IN
        tm_log' = IF OnTimer(c, tm_weak)
                  THEN [tm_log EXCEPT !.invoked = @ \cup
                            {[id |-> c.id, cond |-> c.cond,
                              alive |-> c.cond = 0 \/ c.cond \in tm_weak]}]
                  ELSE [tm_log EXCEPT !.suppressed = @ \cup {c.id}]
    /\ tm_cbs' = Tail(tm_cbs)
    /\ UNCHANGED <<tm_timers, tm_now, m_previouseTime, tm_weak, tmRest>>

\* One round of the inner loop of IOManager::idle() (lines 414-436):
\* next_timeout is declared as 0 and idle() tests the stopping() without
\* argument, so nothing stores a timer deadline in it; it is capped to
\* MAX_TIMEOUT, and epoll_wait is called with MAX_TIMEOUT itself.
TmIdleWait ==
    /\ tm_log.waits < MaxWaits
    /\ LET next_timeout == 0
           capped == IF next_timeout # Infinite
                     THEN IF next_timeout < MAX_TIMEOUT THEN next_timeout
                          ELSE MAX_TIMEOUT
                     ELSE MAX_TIMEOUT
       IN  tm_log' = [tm_log EXCEPT !.waits = @ + 1, !.next_timeout = capped,
                                    !.timeout = MAX_TIMEOUT]
    /\ UNCHANGED <<tm_timers, tm_now, m_previouseTime, tm_cbs, tm_weak, tmRest>>

NextTimer ==
    \/ \E ms \in 0..MaxMs, recurring \in BOOLEAN, cond \in {0} \cup Witnesses :
            TmAddTimer(ms, recurring, cond)
    \/ \E t \in tm_timers : TmCancel(t)
    \/ \E w \in Witnesses : TmRelease(w)
    \/ TmTick
    \/ TmListExpiredCb
    \/ TmInvoke
    \/ TmIdleWait

SpecTimer == InitTimer /\ [][NextTimer]_vars

-----------------------------------------------------------------------------
(* The syscall hooks of hook.cpp and the FdManager, as called by the tasks
   that run on the workers of an IOManager(MaxThreads, false) *)

MaxHookOps   == 3   \* calls the tasks make in a run
MaxTimeoutMs == 1   \* setsockopt sets a timeout of 1..MaxTimeoutMs ms

\* FdManager::get(fd) when the table has no context for fd
NoCtx == <<>>

\* FdCtx as FdManager::get(fd, true) creates it: fstat tells whether fd is a
\* socket, and a socket is made non-blocking in the kernel.
NewFdCtx(sock) ==
    [isSocket |-> sock, isClosed |-> FALSE, sysNonblock |-> sock,
     userNonblock |-> FALSE,
     timeout |-> [ev \in IOEvents |-> Infinite]]

\* The kernel's side of an open fd: O_NONBLOCK, SO_RCVTIMEO (READ) and
\* SO_SNDTIMEO (WRITE), the directions it is ready for.  asked is a ghost:
\* <<b>> when b is the last O_NONBLOCK request the user made since the fd has
\* a context, <<>> when the user has made none.
NewKfd(sock) ==
    [open |-> TRUE, sock |-> sock, nonblock |-> FALSE,
     timeo |-> [ev \in IOEvents |-> 0], ready |-> {}, asked |-> <<>>]

\* is_hook_enable() (lines 243-245)
is_hook_enable(th) == t_hook_enable[th]

\* Ghost: what a hooked call finds and leaves on its fd: the directions
\* registered, m_pendingEventCount, the schedule calls made for the fd, the fd
\* context, the kernel's O_NONBLOCK and the user's last request.
NoSnap == [events |-> {}, pend |-> 0, nsched |-> 0, ctx |-> NoCtx,
           nonblock |-> FALSE, asked |-> <<>>]

HookSnap(fd) ==
    IF fd \in Fds
    THEN [events |-> m_fdContexts[fd].events, pend |-> m_pendingEventCount,
          nsched |-> NSched(fd), ctx |-> m_datas[fd],
          nonblock |-> kfd[fd].nonblock, asked |-> kfd[fd].asked]
    ELSE NoSnap

\* The read, write, sleep, close or F_GETFL call a thread is in or has made
\* last (the calls that only set an option leave no record): the function, its fd and
\* direction, the calls of the original function it has made, its result;
\* path is "delegate" when the call went straight to the original function,
\* "cooperate" when it took the path that registers with the IOManager.
\* Ghosts: finite (the user has set a timeout for the direction), quiet (the
\* fd has not been ready during the call), pre and post.
NoHook == [fn |-> "none", pc |-> "none", path |-> "none", fd |-> 0,
           event |-> READ, calls |-> 0, ret |-> 0, err |-> "none",
           finite |-> FALSE, quiet |-> TRUE,
           pre |-> NoSnap, post |-> NoSnap]

InitHook ==
    /\ InitIOManager
    /\ ~ndebug
    /\ TimerUnused
    /\ t_hook_enable = [th \in 0..MaxThreads |-> FALSE]
    /\ m_datas = [fd \in Fds |-> NoCtx]
    /\ kfd \in [Fds -> {NewKfd(s) : s \in BOOLEAN}]
    /\ hook = [th \in IOThreads |-> NoHook]
    /\ hook_ops = 0

hookRest == <<fibers, t_fiber, t_thread_fiber, f_thread, crash, testVars, ctor,
              m_rootFiber, m_threads, t_scheduler_fiber, wk, mainst, taskLog,
              ndebug, timerVars, t_hook_enable, m_fdContexts, fd_mutex,
              m_pendingEventCount, io_scheduled, io_ops, ioMainTm, ioQueue>>

\* The task running on worker th is about to make a call.
HookCaller(th) ==
    /\ crash = "none"
    /\ io[th].pc = "task"
    /\ hook_ops + io_ops < MaxHookOps

\* The call returns to the task.
HookDone(h, ret, err) ==
    [h EXCEPT !.pc = "done", !.ret = ret, !.err = err, !.post = HookSnap(h.fd)]

\* FdManager::FdMgr::GetInstance()->get(fd, true) on an fd without context
FdMgrGet(th, fd) ==
    /\ HookCaller(th)
    /\ kfd[fd].open
    /\ m_datas[fd] = NoCtx
    /\ m_datas' = [m_datas EXCEPT ![fd] = NewFdCtx(kfd[fd].sock)]
    /\ kfd' = [kfd EXCEPT ![fd].nonblock = kfd[fd].sock \/ @,
                          ![fd].asked = <<>>]
    /\ hook_ops' = hook_ops + 1
    /\ UNCHANGED <<hook, io, epoll_interest, epoll_ready, hookRest>>

\* setsockopt (lines 664-678) with SOL_SOCKET and SO_RCVTIMEO (ev = READ) or
\* SO_SNDTIMEO (ev = WRITE): the timeout is copied into the fd context only
\* when the thread has hooking enabled.
HookSetsockopt(th, fd, ev, ms) ==
    /\ HookCaller(th)
    /\ kfd[fd].open
    /\ m_datas' = IF is_hook_enable(th) /\ m_datas[fd] # NoCtx
                  THEN [m_datas EXCEPT ![fd].timeout[ev] = ms]
                  ELSE m_datas
    /\ kfd' = [kfd EXCEPT ![fd].timeo[ev] = ms]
    /\ hook_ops' = hook_ops + 1
    /\ UNCHANGED <<hook, io, epoll_interest, epoll_ready, hookRest>>

\* Mutant of DoIoEntry: the test of t_hook_enable is missing.
DoIoEntryNoFlag(enabled, ctx) ==
    IF ctx = NoCtx THEN "delegate"
    ELSE IF ctx.isClosed THEN "ebadf"
    ELSE IF ~ctx.isSocket \/ ctx.userNonblock THEN "delegate"
    ELSE "cooperate"

\* do_io, lines 258-274: the call goes straight to the original function,
\* fails with EBADF, or goes on to line 276.
DoIoEntry(enabled, ctx) ==
    IF ~enabled THEN "delegate"
    ELSE IF ctx = NoCtx THEN "delegate"
    ELSE IF ctx.isClosed THEN "ebadf"
    ELSE IF ~ctx.isSocket \/ ctx.userNonblock THEN "delegate"
    ELSE "cooperate"

\* The original read or write function on fd: it fails on a closed fd,
\* transfers data when the fd is ready, fails with EAGAIN on a non-blocking
\* fd, and blocks the thread otherwise.
Orig(k, ev) ==
    IF ~k.open THEN [ret |-> -1, err |-> "EBADF"]
    ELSE IF ev \in k.ready THEN [ret |-> 1, err |-> "none"]
    ELSE IF k.nonblock THEN [ret |-> -1, err |-> "EAGAIN"]
    ELSE [ret |-> 0, err |-> "block"]

\* read, write and the like (lines 492-538) through do_io (lines 255-321).
\* Past line 274 the call would arm the timer, register the event and yield
\* (lines 276-320).
HookDoIo(th, fd, ev) ==
    /\ HookCaller(th)
    /\ LET h == [NoHook EXCEPT !.fn = "do_io", !.fd = fd, !.event = ev,
                               !.path = DoIoEntry(is_hook_enable(th), m_datas[fd]),
                               !.finite = kfd[fd].timeo[ev] > 0,
                               !.quiet = ev \notin kfd[fd].ready,
                               !.pre = HookSnap(fd)]
           r == Orig(kfd[fd], ev)
       IN  CASE h.path = "delegate" /\ r.err # "block" ->
                    /\ hook' = [hook EXCEPT ![th] =
                                 HookDone([h EXCEPT !.calls = 1], r.ret, r.err)]
                    /\ UNCHANGED io
             [] h.path = "delegate" /\ r.err = "block" ->
                    /\ hook' = [hook EXCEPT ![th] =
                                 [h EXCEPT !.calls = 1, !.pc = "blocked"]]
                    /\ io' = [io EXCEPT ![th].pc = "hook"]
             [] h.path = "ebadf" ->
                    /\ hook' = [hook EXCEPT ![th] = HookDone(h, -1, "EBADF")]
                    /\ UNCHANGED io
             [] h.path = "cooperate" ->
                    /\ hook' = [hook EXCEPT ![th] = [h EXCEPT !.pc = "retry"]]
                    /\ io' = [io EXCEPT ![th].pc = "hook"]
    /\ hook_ops' = hook_ops + 1
    /\ UNCHANGED <<m_datas, kfd, epoll_interest, epoll_ready, hookRest>>

\* sleep, usleep, nanosleep (lines 329-381): without hooking the original
\* function is called and the thread sleeps in it; with hooking a timer would
\* be added and the fiber would yield.
HookSleep(th) ==
    /\ HookCaller(th)
    /\ LET h == [NoHook EXCEPT !.fn = "sleep", !.pre = HookSnap(0),
                    !.path = IF is_hook_enable(th) THEN "cooperate"
                             ELSE "delegate"]
       IN  hook' = [hook EXCEPT ![th] =
                IF h.path = "delegate"
                THEN [h EXCEPT !.calls = 1, !.pc = "blocked"]
                ELSE [h EXCEPT !.pc = "add_timer"]]
    /\ io' = [io EXCEPT ![th].pc = "hook"]
    /\ hook_ops' = hook_ops + 1
    /\ UNCHANGED <<m_datas, kfd, epoll_interest, epoll_ready, hookRest>>

\* The original function the thread is blocked in returns: sleep_f when the
\* time is over; a read or write when the fd is ready, when the kernel's
\* timeout for the direction has passed (EAGAIN), or on a signal (EINTR).
HookUnblock(th) ==
    /\ crash = "none"
    /\ io[th].pc = "hook"
    /\ hook[th].pc = "blocked"
    /\ LET h == hook[th]
           k == kfd[h.fd]
       IN  \/ /\ h.fn = "sleep"
              /\ hook' = [hook EXCEPT ![th] = HookDone(h, 0, "none")]
           \/ /\ h.fn = "do_io"
              /\ \E r \in {"ready", "timeout", "signal"} :
                  /\ r = "ready" => h.event \in k.ready
                  /\ r = "timeout" => k.timeo[h.event] > 0
                  /\ hook' = [hook EXCEPT ![th] =
                        CASE r = "ready" -> HookDone(h, 1, "none")
                          [] r = "timeout" -> HookDone(h, -1, "EAGAIN")
                          [] r = "signal" -> HookDone(h, -1, "EINTR")]
    /\ io' = [io EXCEPT ![th].pc = "task"]
    /\ UNCHANGED <<m_datas, kfd, hook_ops, epoll_interest, epoll_ready, hookRest>>

\* The kernel: data arrives on fd, or fd becomes writable.
HookKernelReady(fd, ev) ==
    /\ crash = "none"
    /\ kfd[fd].open
    /\ ev \notin kfd[fd].ready
    /\ kfd' = [kfd EXCEPT ![fd].ready = @ \cup {ev}]
    /\ hook' = [th \in IOThreads |->
                 IF hook[th].pc = "blocked" /\ hook[th].fd = fd
                    /\ hook[th].event = ev
                 THEN [hook[th] EXCEPT !.quiet = FALSE] ELSE hook[th]]
    /\ UNCHANGED <<m_datas, hook_ops, io, epoll_interest, epoll_ready, hookRest>>

\* close (lines 540-554): without hooking the original close is called at
\* once; the kernel drops a closed fd from every epoll interest list.  With
\* hooking the call would go through cancelAll and FdManager::del first.
HookClose(th, fd) ==
    /\ HookCaller(th)
    /\ LET h == [NoHook EXCEPT !.fn = "close", !.fd = fd, !.pre = HookSnap(fd),
                    !.path = IF is_hook_enable(th) /\ m_datas[fd] # NoCtx
                             THEN "cooperate" ELSE "delegate"]
       IN  IF h.path = "delegate"
           THEN /\ kfd' = [kfd EXCEPT ![fd] =
                            IF @.open THEN [NewKfd(@.sock) EXCEPT !.open = FALSE]
                            ELSE @]
                /\ epoll_interest' = [epoll_interest EXCEPT ![fd] = {}]
                /\ epoll_ready' = {e \in epoll_ready : e[1] # fd}
                /\ hook' = [hook EXCEPT ![th] =
                             IF kfd[fd].open
                             THEN HookDone([h EXCEPT !.calls = 1], 0, "none")
                             ELSE HookDone([h EXCEPT !.calls = 1], -1, "EBADF")]
                /\ UNCHANGED io
           ELSE /\ hook' = [hook EXCEPT ![th] = [h EXCEPT !.pc = "cancel_all"]]
                /\ io' = [io EXCEPT ![th].pc = "hook"]
                /\ UNCHANGED <<kfd, epoll_interest, epoll_ready>>
    /\ hook_ops' = hook_ops + 1
    /\ UNCHANGED <<m_datas, hookRest>>

\* The fd has a context the fcntl and ioctl hooks act on (lines 565, 582, 652).
Managed(ctx) == ctx # NoCtx /\ ~ctx.isClosed /\ ctx.isSocket

\* fcntl(fd, F_SETFL, arg), lines 560-575: the O_NONBLOCK bit passed on to the
\* original fcntl
SetFlArg(ctx, nb) == IF Managed(ctx) THEN ctx.sysNonblock ELSE nb

\* Mutant of GetFl: F_GETFL returns what the kernel says.
GetFlKernel(ctx, karg) == karg

\* fcntl(fd, F_GETFL), lines 577-590: the O_NONBLOCK bit of the value returned
GetFl(ctx, karg) == IF Managed(ctx) THEN ctx.userNonblock ELSE karg

\* fcntl(fd, F_SETFL, arg) with O_NONBLOCK in arg iff nb
HookFcntlSetFl(th, fd, nb) ==
    /\ HookCaller(th)
    /\ kfd[fd].open
    /\ m_datas' = IF Managed(m_datas[fd])
                  THEN [m_datas EXCEPT ![fd].userNonblock = nb] ELSE m_datas
    /\ kfd' = [kfd EXCEPT ![fd].nonblock = SetFlArg(m_datas[fd], nb),
                          ![fd].asked = IF Managed(m_datas[fd]) THEN <<nb>> ELSE @]
    /\ hook_ops' = hook_ops + 1
    /\ UNCHANGED <<hook, io, epoll_interest, epoll_ready, hookRest>>

\* fcntl(fd, F_GETFL): ret is 1 when O_NONBLOCK is in the value returned.
HookFcntlGetFl(th, fd) ==
    /\ HookCaller(th)
    /\ kfd[fd].open
    /\ hook' = [hook EXCEPT ![th] =
                 HookDone([NoHook EXCEPT !.fn = "F_GETFL", !.fd = fd,
                                         !.calls = 1, !.pre = HookSnap(fd)],
                          IF GetFl(m_datas[fd], kfd[fd].nonblock) THEN 1 ELSE 0,
                          "none")]
    /\ hook_ops' = hook_ops + 1
    /\ UNCHANGED <<m_datas, kfd, io, epoll_interest, epoll_ready, hookRest>>

\* ioctl(fd, FIONBIO, &v), lines 643-658: the fd context records v, and the
\* original ioctl is called with the user's argument.
HookIoctl(th, fd, v) ==
    /\ HookCaller(th)
    /\ kfd[fd].open
    /\ m_datas' = IF Managed(m_datas[fd])
                  THEN [m_datas EXCEPT ![fd].userNonblock = v] ELSE m_datas
    /\ kfd' = [kfd EXCEPT ![fd].nonblock = v,
                          ![fd].asked = IF Managed(m_datas[fd]) THEN <<v>> ELSE @]
    /\ hook_ops' = hook_ops + 1
    /\ UNCHANGED <<hook, io, epoll_interest, epoll_ready, hookRest>>

\* SpecHook: the owner schedules tasks; the tasks register events with the
\* IOManager, create fd contexts and make hooked calls.
NextHook ==
    \/ IOMainSchedule
    \/ \E th \in IOThreads :
        \/ IOTake(th)
        \/ IOTaskDone(th)
        \/ HookCaller(th) /\ IOWatch(th)
        \/ IOLock(th)
        \/ IOAddEvent(th)
        \/ IOAddSlot(th)
        \/ IOReturn(th)
        \/ HookSleep(th)
        \/ HookUnblock(th)
        \/ \E fd \in Fds :
            \/ FdMgrGet(th, fd)
            \/ HookClose(th, fd)
            \/ HookFcntlGetFl(th, fd)
            \/ \E nb \in BOOLEAN : HookFcntlSetFl(th, fd, nb)
            \/ \E v \in BOOLEAN : HookIoctl(th, fd, v)
            \/ \E ev \in IOEvents :
                \/ HookDoIo(th, fd, ev)
                \/ \E ms \in 1..MaxTimeoutMs : HookSetsockopt(th, fd, ev, ms)
    \/ \E fd \in Fds, ev \in IOEvents : HookKernelReady(fd, ev)

SpecHook == InitHook /\ [][NextHook]_vars

-----------------------------------------------------------------------------
(* The table of fd contexts, m_fdContexts, under addEvent calls for fds      *)
(* inside and outside the table.  Here the vector holds the identities of    *)
(* the FdContext objects, its indices are 0 .. size-1, and of addEvent only  *)
(* the lookup of lines 166-181 is taken in steps.                            *)

MaxTableOps == 3    \* addEvent calls made in a run
InitialSize == 32   \* contextResize(32) of the constructor

\* The fds the tasks use: the last of the initial table, the first outside
\* it, and one that is outside the table grown for the latter.
TableFds == {InitialSize - 1, InitialSize, InitialSize + InitialSize \div 2}

\* IOManager::contextResize(size) by call number `by`: the vector is resized
\* (cut when size is smaller) and every empty slot gets a new FdContext.
contextResize(tbl, size, by) ==
    [i \in 0..(size - 1) |->
        IF i \in DOMAIN tbl THEN tbl[i] ELSE <<"FdContext", i, by>>]

\* The IOManager(MaxThreads, false) after construction, its workers in run().
InitTable ==
    /\ fibers = [f \in {TaskF(th) : th \in IOThreads} |->
                    FiberResume(NewFiberObj(<<>>, f, TRUE))]
    /\ t_fiber = [th \in IOThreads |-> TaskF(th)]
    /\ t_thread_fiber = [th \in IOThreads |-> MainF(th)]
    /\ f_thread = [f \in {TaskF(th) : th \in IOThreads} |-> f[2]]
    /\ crash = "none"
    /\ tpc = <<>>
    /\ tfib = <<>>
    /\ thist = <<>>
    /\ ctor = [threads |-> MaxThreads, use_caller |-> FALSE]
    /\ m_rootFiber = nullptr
    /\ m_stopping = FALSE
    /\ m_tasks = <<>>
    /\ m_activeThreadCount = 0
    /\ m_idleThreadCount = 0
    /\ m_threads = IOThreads
    /\ t_scheduler_fiber = <<>>
    /\ wk = <<>>
    /\ mainst = <<>>
    /\ taskLog = <<>>
    /\ m_fdContexts = contextResize(<<>>, InitialSize, 0)
    /\ fd_mutex = <<>>
    /\ m_pendingEventCount = 0
    /\ epoll_interest = <<>>
    /\ epoll_ready = {}
    /\ io = [th \in IOThreads |-> NoCall]
    /\ io_scheduled = <<>>
    /\ io_ops = 0
    /\ ndebug = FALSE
    /\ m_timers = 0
    /\ io_main = [scheduled |-> 0, timers |-> 0, pc |-> "user"]
    /\ HookUnused(0..MaxThreads)
    /\ TimerUnused

\* addEvent(fd, event, cb), lines 166-172 and 174: under the read lock the
\* size of the table is compared with fd; fd_ctx is read from the table when
\* fd is inside, and the read lock is released.
TableLookup(th) ==
    /\ crash = "none"
    /\ io[th].pc = "task"
    /\ io_ops < MaxTableOps
    /\ \E fd \in TableFds :
        io' = [io EXCEPT ![th].op = "addEvent", ![th].fd = fd,
                         ![th].reg = io_ops + 1,
                         ![th].pc = IF fd \in DOMAIN m_fdContexts
                                    THEN "tbl_found" ELSE "tbl_resize",
                         ![th].fd_ctx = IF fd \in DOMAIN m_fdContexts
                                        THEN m_fdContexts[fd] ELSE nullptr]
    /\ io_ops' = io_ops + 1
    /\ UNCHANGED <<crash, ioFd, epoll_ready, io_scheduled, ioMainTm, ioQueue,
                   ioRest>>

\* addEvent, lines 175-178: under the write lock contextResize(fd * 1.5), then
\* fd_ctx is read from the table.
TableResize(th) ==
    /\ crash = "none"
    /\ io[th].pc = "tbl_resize"
    /\ LET fd == io[th].fd
           tbl == contextResize(m_fdContexts, fd + fd \div 2, io[th].reg)
       IN  /\ m_fdContexts' = tbl
           /\ io' = [io EXCEPT ![th].pc = "tbl_found", ![th].fd_ctx = tbl[fd]]
    /\ UNCHANGED <<crash, fd_mutex, m_pendingEventCount, epoll_interest,
                   epoll_ready, ioGhost, ioMainTm, ioQueue, ioRest>>

\* The rest of addEvent (lines 184-229, taken in steps in SpecIO) on the
\* object fd_ctx points to, and the return to the task.
TableReturn(th) ==
    /\ crash = "none"
    /\ io[th].pc = "tbl_found"
    /\ io' = [io EXCEPT ![th] = EndCall(io[th])]
    /\ UNCHANGED <<crash, ioFd, epoll_ready, ioGhost, ioMainTm, ioQueue, ioRest>>

\* SpecTable: the owner schedules tasks, the tasks call addEvent.
NextTable ==
    \/ IOMainSchedule
    \/ \E th \in IOThreads :
        \/ IOTake(th)
        \/ IOTaskDone(th)
        \/ TableLookup(th)
        \/ TableResize(th)
        \/ TableReturn(th)

SpecTable == InitTable /\ [][NextTable]_vars

-----------------------------------------------------------------------------
(* Claims about the scheduler, checked under Spec *)

InQueue(n) == \E i \in DOMAIN m_tasks : m_tasks[i].sid = n
Held(n)    == \E th \in Threads : wk[th].pc = "exec" /\ wk[th].task.sid = n
StopReturned == mainst.stops > 0 /\ mainst.pc = "user"

\* C1: every task passed to schedule() is taken from the queue by exactly one
\* worker and resumed or invoked exactly once, as long as the scheduler is not
\* stopped: at any moment a task is still queued, or in the hands of the one
\* worker that took it and is about to resume it, or was resumed once; none is
\* lost and none is executed twice.
C1_EveryTaskExactlyOnce ==
    ~m_stopping =>
        \A n \in DOMAIN taskLog :
            /\ taskLog[n].deq <= 1
            /\ taskLog[n].run <= taskLog[n].deq
            /\ \/ taskLog[n].run = 1
               \/ crash = "none" /\ (InQueue(n) \/ Held(n))


\* C2 (as claimed): every fiber's state is READY, RUNNING or TERM, and on any
\* one thread at most one fiber is RUNNING, the thread's main fiber and the
\* caller's scheduling fiber counted like the task fibers.
FiberStates == {READY, RUNNING, TERM}
RunningOn(th) ==
    {f \in DOMAIN fibers : fibers[f].state = RUNNING /\ f_thread[f] = th}
C2_AtMostOneRunning ==
    /\ \A f \in DOMAIN fibers : fibers[f].state \in FiberStates
    /\ \A th \in Threads : Cardinality(RunningOn(th)) <= 1

\* C2 (amended): every fiber's state is READY, RUNNING or TERM, and on any one
\* thread at most one fiber other than the thread's main fiber and its
\* scheduling fiber is RUNNING (those two stay RUNNING while a fiber they
\* resumed runs: resume() never changes the state of the resumer).
SchedulingFibers(th) == {t_thread_fiber[th], t_scheduler_fiber[th]}
C2_AtMostOneTaskRunning ==
    /\ \A f \in DOMAIN fibers : fibers[f].state \in FiberStates
    /\ \A th \in Threads :
        Cardinality(RunningOn(th) \ SchedulingFibers(th)) <= 1

\* A task runs on a thread on which another task fiber has yielded before.
C2_Witness ==
    \E th \in Threads :
        /\ wk[th].pc = "run"
        /\ fibers[wk[th].cur].state = RUNNING
        /\ \E g \in DOMAIN fibers :
            /\ g # wk[th].cur
            /\ g[1] = "task"
            /\ f_thread[g] = th
            /\ fibers[g].state = READY
            /\ fibers[g].pc > 1

\* C3: a task scheduled with a thread id other than -1 is taken from the queue
\* and executed only by the worker with that thread id; a step of any other
\* worker leaves it in the queue, behind the same tasks as before.
TakeStep(th) == wk[th].pc = "scan" /\ wk'[th].pc = "exec"
C3_PinnedOnlyByItsThread ==
    [][ /\ \A th \in Threads :
            TakeStep(th) => wk'[th].task.thread \in {AnyThread, th}
        /\ \A n \in DOMAIN taskLog' :
            (taskLog'[n].run > 0 /\ taskLog'[n].pin # AnyThread)
                => taskLog'[n].by = taskLog'[n].pin
        /\ \A i \in DOMAIN m_tasks :
            m_tasks[i].thread # AnyThread =>
                \/ TakeStep(m_tasks[i].thread)
                     /\ wk'[m_tasks[i].thread].task = m_tasks[i]
                \/ i \in DOMAIN m_tasks' /\ m_tasks'[i] = m_tasks[i]
                \/ /\ (i - 1) \in DOMAIN m_tasks'
                   /\ m_tasks'[i - 1] = m_tasks[i]
                   /\ \E th \in Threads, k \in 1..(i - 1) :
                        TakeStep(th) /\ wk'[th].task = m_tasks[k]
      ]_vars

\* A task pinned to thread 1 was skipped by another worker, which took a task
\* scheduled later, and was then run by thread 1.
C3_Witness ==
    \E a, b \in DOMAIN taskLog :
        /\ a < b
        /\ taskLog[a].pin = 1 /\ taskLog[a].run = 1 /\ taskLog[a].by = 1
        /\ taskLog[b].run = 1 /\ taskLog[b].by # 1
        /\ taskLog[b].ord < taskLog[a].ord

\* C4: the queue is FIFO: it holds the tasks in the order they were scheduled,
\* and a worker that takes a task takes the earliest scheduled one it may run:
\* when task b was taken while the earlier scheduled task a was still queued,
\* a is pinned to a thread other than the one that took b.
C4_QueueIsFifo ==
    /\ \A i, j \in DOMAIN m_tasks : i < j => m_tasks[i].sid < m_tasks[j].sid
    /\ \A a, b \in DOMAIN taskLog :
        ( /\ a < b
          /\ taskLog[b].deq > 0
          /\ (taskLog[a].deq = 0 \/ taskLog[a].ord > taskLog[b].ord) )
        => taskLog[a].pin \notin {AnyThread, taskLog[b].by}

\* Two tasks of one producer were run by one worker, in the order scheduled.
C4_Witness ==
    \E a, b \in DOMAIN taskLog :
        /\ a < b
        /\ taskLog[a].from = taskLog[b].from
        /\ taskLog[a].run = 1 /\ taskLog[b].run = 1
        /\ taskLog[a].by = taskLog[b].by
        /\ taskLog[a].ord < taskLog[b].ord

\* C5: when stop() returns on a use_caller scheduler the queue is empty, the
\* active count is 0, the caller's scheduling fiber is TERM, no thread is left
\* in run(), and every task scheduled so far has been resumed.
StopReturns ==
    \/ mainst.pc = "stop_join" /\ mainst'.pc = "user"
    \/ mainst.pc = "user" /\ mainst'.pc = "user" /\ mainst'.stops > mainst.stops
C5_StopDrains ==
    [][ (ctor.use_caller /\ StopReturns) =>
            /\ m_tasks' = <<>>
            /\ m_activeThreadCount' = 0
            /\ fibers'[m_rootFiber].state = TERM
            /\ \A th \in Threads : wk'[th].pc \in {"off", "exit"}
            /\ \A n \in DOMAIN taskLog' : taskLog'[n].run = 1
      ]_vars

\* stop() has returned on a scheduler of the caller and one spawned thread,
\* both of which ran tasks.
C5_Witness ==
    /\ StopReturned
    /\ ctor.use_caller /\ ctor.threads = 2
    /\ wk[1].pc = "exit" /\ wk[Caller].pc = "exit"
    /\ \E n \in DOMAIN taskLog : taskLog[n].by = Caller
    /\ \E n \in DOMAIN taskLog : taskLog[n].by = 1

\* C6: with use_caller and threads = 1, start() creates no thread, no task is
\* taken or run before stop() is called, every task runs on the caller thread,
\* and when stop() has returned every task scheduled before its return, by the
\* caller or by a task, has been run.
C6_CallerOnlyRunsInStop ==
    (ctor.use_caller /\ ctor.threads = 1) =>
        /\ m_threads = {}
        /\ \A th \in Threads \ {Caller} : wk[th].pc = "off"
        /\ ~m_stopping => \A n \in DOMAIN taskLog :
                              taskLog[n].deq = 0 /\ taskLog[n].run = 0
        /\ \A n \in DOMAIN taskLog : taskLog[n].deq > 0 => taskLog[n].by = Caller
        /\ StopReturned => \A n \in DOMAIN taskLog :
                              ~taskLog[n].late => taskLog[n].run = 1

\* stop() has returned on such a scheduler after start(), having run tasks of
\* the caller and a task scheduled by a task.
C6_Witness ==
    /\ ctor.use_caller /\ ctor.threads = 1
    /\ StopReturned /\ mainst.started
    /\ mainst.scheduled = MaxMainTasks
    /\ Len(taskLog) > mainst.scheduled
    /\ \A n \in DOMAIN taskLog : taskLog[n].run = 1

\* C7: the threads that execute run() are the caller thread and threads-1
\* spawned threads with use_caller, `threads` spawned threads without, never
\* more: start() (before any stop()) puts exactly the spawned ones in the
\* pool, stop() makes the caller thread enter run() iff use_caller, and without
\* use_caller the caller thread never takes a task.
EnteredRun == {th \in Threads : wk[th].pc # "off"}
ExpectedWorkers ==
    IF ctor.use_caller THEN {Caller} \cup (1..(ctor.threads - 1))
    ELSE 1..ctor.threads
C7_ExactlyThreadsWorkers ==
    /\ EnteredRun \subseteq ExpectedWorkers
    /\ (mainst.started /\ ~m_stopping) =>
            /\ m_threads = ExpectedWorkers \ {Caller}
            /\ EnteredRun = m_threads
    /\ (m_stopping /\ crash = "none") => (Caller \in EnteredRun <=> ctor.use_caller)
    /\ ~ctor.use_caller => \A n \in DOMAIN taskLog : taskLog[n].by # Caller

\* The caller thread and the spawned thread of Scheduler(2, true) both ran tasks.
C7_Witness ==
    /\ ctor.use_caller /\ ctor.threads = 2
    /\ EnteredRun = {Caller, 1}
    /\ \E n \in DOMAIN taskLog : taskLog[n].by = Caller /\ taskLog[n].run = 1
    /\ \E n \in DOMAIN taskLog : taskLog[n].by = 1 /\ taskLog[n].run = 1


\* C8: for a fiber whose body yields k times and then returns, whenever
\* resume() has returned to the thread's main fiber the fiber is READY after
\* each of the first k calls and TERM after call k+1, the yield() at the end of
\* MainFunc leaving TERM as it is; the caller is the current fiber again.
C8_ResumeReturnsReadyThenTerm ==
    \A th \in TestThreads :
        (tpc[th] = "main" /\ thist[th].last = "resume") =>
            /\ t_fiber[th] = t_thread_fiber[th]
            /\ thist[th].calls \in 1..(thist[th].k + 1)
            /\ thist[th].calls <= thist[th].k
                    => fibers[tfib[th]].state = READY
            /\ thist[th].calls = thist[th].k + 1
                    => fibers[tfib[th]].state = TERM

\* A body with MaxYields yields has been resumed MaxYields + 1 times.
C8_Witness ==
    \E th \in TestThreads :
        /\ tpc[th] = "main" /\ thist[th].last = "resume"
        /\ thist[th].k = MaxYields
        /\ thist[th].calls = MaxYields + 1
        /\ fibers[tfib[th]].state = TERM

\* C9: right after reset(fn) on a TERM fiber the fiber is READY, bound to fn
\* at its entry, on the stack it was created with; one resume of an fn that
\* does not yield leaves it TERM again, after any number of such resets.
C9_ResetRebindsTermFiber ==
    \A th \in TestThreads :
        /\ (thist[th].last = "reset" /\ thist[th].resetFrom = TERM) =>
                /\ fibers[tfib[th]].state = READY
                /\ fibers[tfib[th]].cb = Yields(thist[th].k)
                /\ fibers[tfib[th]].pc = 1
                /\ fibers[tfib[th]].stack = thist[th].stack
                /\ fibers[tfib[th]].stack # nullptr
        /\ ( /\ thist[th].resets > 0 /\ thist[th].resetFrom = TERM
             /\ thist[th].last = "resume" /\ tpc[th] = "main"
             /\ thist[th].k = 0 ) =>
                /\ thist[th].calls = 1
                /\ fibers[tfib[th]].state = TERM

\* The fiber is TERM again after the MaxResets-th reset of a TERM fiber and
\* one resume of a body that does not yield.
C9_Witness ==
    \E th \in TestThreads :
        /\ thist[th].resets = MaxResets
        /\ thist[th].resetFrom = TERM
        /\ thist[th].last = "resume" /\ tpc[th] = "main"
        /\ thist[th].k = 0 /\ thist[th].calls = 1
        /\ fibers[tfib[th]].state = TERM
        /\ fibers[tfib[th]].stack = TestF(th)


\* C10: for every fd context whose mutex is not held, READ is in the
\* registered events iff the READ slot is populated (scheduler set and a
\* callback or a fiber stored), and likewise for WRITE.
SlotPopulated(ctx) ==
    ctx.scheduler # nullptr /\ (ctx.cb # NoCb \/ ctx.fiber # nullptr)
C10_EventBitIffSlot ==
    \A fd \in DOMAIN m_fdContexts :
        fd_mutex[fd] = <<>> =>
            \A ev \in IOEvents :
                ev \in m_fdContexts[fd].events
                    <=> SlotPopulated(m_fdContexts[fd][getEventContext(ev)])

-----------------------------------------------------------------------------
(* Claims about the fd contexts, checked under SpecIO *)

\* No call of the IOManager is in progress on any worker.
IOQuiescent == \A th \in IOThreads : io[th].pc \in {"sched", "task"}

\* The number of direction bits set over all fd contexts.
RECURSIVE BitsSet(_)
BitsSet(fds) ==
    IF fds = {} THEN 0
    ELSE LET fd == CHOOSE x \in fds : TRUE
         IN  Cardinality(m_fdContexts[fd].events) + BitsSet(fds \ {fd})

\* C11: whenever no addEvent, delEvent, cancelEvent or cancelAll is in
\* progress, m_pendingEventCount equals the total number of direction bits set
\* over all fd contexts.
C11_PendingCountsBits ==
    (crash = "none" /\ IOQuiescent) => m_pendingEventCount = BitsSet(Fds)

\* C11 where assert() is compiled in, for the diagnosis.
C11_PendingCountsBitsDebug ==
    ~ndebug => C11_PendingCountsBits

\* The task of worker th is at the return of a successful delEvent(fd, d) that
\* it called after its successful addEvent(fd, d) on a direction that was not
\* registered, no other call having locked the fd context in between or
\* together with one of the two.
AddThenDel(th) ==
    /\ crash = "none"
    /\ io[th].pc = "unlock" /\ io[th].op = "delEvent" /\ io[th].ret = "true"
    /\ io[th].prev # NoPrev
    /\ io[th].excl

\* C12: addEvent(fd, d) on an unregistered d followed by delEvent(fd, d)
\* leaves the registered mask as it was before the addEvent and the d slot
\* empty, the two calls have changed m_pendingEventCount by 0 in all, and
\* nothing has been scheduled for fd.
C12_AddThenDelRestores ==
    \A th \in IOThreads :
        AddThenDel(th) =>
            LET l == io[th] IN
            /\ m_fdContexts[l.fd].events = l.prev.events
            /\ m_fdContexts[l.fd][getEventContext(l.event)] = resetEventContext
            /\ l.prev.dec = 1 /\ l.dec = -1
            /\ NSched(l.fd) = l.prev.nsched
            /\ l.fired = <<>>

\* The round trip has happened on an fd that had the other direction
\* registered.
C12_Witness ==
    \E th \in IOThreads :
        /\ AddThenDel(th)
        /\ io[th].prev.events # {}

\* The task of worker th is past the duplicate check of an addEvent(fd, d)
\* that found d registered and has the fd context to itself.
DuplicateAdd(th) ==
    /\ crash = "none"
    /\ io[th].op = "addEvent" /\ io[th].pc \in {"add_slot", "unlock"}
    /\ io[th].event \in io[th].pre.events
    /\ io[th].excl

\* C13: an addEvent(fd, d) that finds d registered on fd does not report
\* success, leaves the fd context (mask and slots) as it found it and does
\* not change m_pendingEventCount.
C13_DuplicateAddFails ==
    \A th \in IOThreads :
        DuplicateAdd(th) =>
            /\ io[th].pc = "unlock" /\ io[th].ret = "false"
            /\ m_fdContexts[io[th].fd] = io[th].pre
            /\ io[th].dec = 0

\* The task of worker th is at the return of a call op(fd, d) that has had
\* the fd context to itself since it locked it.
AtReturn(th, op) ==
    /\ crash = "none"
    /\ io[th].pc = "unlock" /\ io[th].op = op
    /\ io[th].excl

\* The fd context of the call of worker th after d has been cleared from what
\* the call found.
PreWithout(th, evs) ==
    [events |-> io[th].pre.events \ evs,
     read   |-> IF READ \in evs THEN resetEventContext ELSE io[th].pre.read,
     write  |-> IF WRITE \in evs THEN resetEventContext ELSE io[th].pre.write]

\* The stored work of the slot of d that the call of worker th found.
RECURSIVE StoredWork(_, _)
StoredWork(th, evs) ==
    IF evs = <<>> THEN <<>>
    ELSE LET ctx == io[th].pre[getEventContext(Head(evs))]
         IN  <<Scheduled(io[th].fd, Head(evs), ctx.cb,
                         IF ctx.cb # NoCb THEN nullptr ELSE ctx.fiber, ctx.reg)>>
             \o StoredWork(th, Tail(evs))

\* What triggerEvent has handed to schedule, in order, and the part of it
\* that is for the fd of the call of worker th and was handed over since the
\* call took the lock.
IsEventWork(s) == s.fd # 0
EventSchedules == SelectSeq(io_scheduled, IsEventWork)
ScheduledBy(th) ==
    LET ForFd(s) == s.fd = io[th].fd
        all == SelectSeq(io_scheduled, ForFd)
    IN  SubSeq(all, io[th].nsched + 1, Len(all))

InOrder(evs) ==
    (IF READ \in evs THEN <<READ>> ELSE <<>>)
        \o (IF WRITE \in evs THEN <<WRITE>> ELSE <<>>)

C16_OneShot ==
    \A i, j \in DOMAIN EventSchedules :
        i < j => EventSchedules[i].reg # EventSchedules[j].reg

\* C16 where assert() is compiled in, for the diagnosis.
C16_OneShotDebug == ~ndebug => C16_OneShot

\* Worker th runs a task that triggerEvent scheduled, and what it was
\* scheduled for.
RunsEventTask(th) ==
    /\ io[th].pc \notin {"sched", "no_task", "epoll_wait", "idle_dispatch", "exit"}
    /\ io[th].task # NoTask
    /\ io_scheduled[io[th].task.sid].fd # 0
FiredFor(th) == io_scheduled[io[th].task.sid]

-----------------------------------------------------------------------------
(* Claims about the reactor, checked under SpecReactor *)

\* The last epoll_wait of worker th's idle() has reported fd ready in
\* direction d, which is registered on fd.
Reported(th, fd, d) ==
    /\ io[th].pc \in {"epoll_wait", "idle_dispatch"}
    /\ <<fd, d>> \in io[th].seen
    /\ d \in m_fdContexts[fd].events

\* C18: a readiness report for a registered direction does not leave the
\* `events` array of idle() unless idle() dispatches it: the step by which
\* the report goes removes d from the interest mask and from the registered
\* mask, hands the stored work to schedule and decrements
\* m_pendingEventCount.
C18_ReadyIsDispatched ==
    [][\A th \in IOThreads : \A fd \in Fds : \A d \in IOEvents :
         (Reported(th, fd, d) /\ <<fd, d>> \notin io'[th].seen) =>
            /\ d \notin epoll_interest'[fd]
            /\ d \notin m_fdContexts'[fd].events
            /\ Len(io_scheduled') = Len(io_scheduled) + 1
            /\ io_scheduled'[Len(io_scheduled')].fd = fd
            /\ io_scheduled'[Len(io_scheduled')].event = d
            /\ m_pendingEventCount' = m_pendingEventCount - 1
      ]_vars

\* C19: a worker whose epoll_wait has returned the wake byte while a task is
\* in the queue is not in epoll_wait again: it has left the wait loop to
\* yield to run().
C19_WakeLeavesWait ==
    \A th \in IOThreads :
        (crash = "none" /\ io[th].pc = "epoll_wait"
           /\ <<TickleFd, READ>> \in io[th].seen)
            => FirstFor(m_tasks, th) = 0

\* C20: the idle fiber of a worker ends only in a state where
\* m_pendingEventCount is 0, no timer is pending and Scheduler::stopping()
\* holds, and stop() returns only when no timer is pending.
C20_IdleEndsWithoutTimers ==
    [][/\ \A th \in IOThreads :
            (~io[th].idle_term /\ io'[th].idle_term) =>
                (m_pendingEventCount = 0 /\ m_timers = 0 /\ stopping)
       /\ (io_main.pc # "stopped" /\ io_main'.pc = "stopped") => m_timers = 0
      ]_vars

-----------------------------------------------------------------------------
(* Claims about the timer set, checked under SpecTimer *)

DrainedTimers == {tm_log.drained[i] : i \in DOMAIN tm_log.drained}
DrainedOnTime ==
    /\ \A d \in DrainedTimers : d.next <= tm_log.now
    /\ \A t \in tm_log.before : t.next <= tm_log.now => t \in DrainedTimers

\* C28 (as claimed): after a listExpiredCb pass, every timer it drained had a
\* deadline <= now, every timer of the set with deadline <= now was drained,
\* and every recurring timer drained is in the set again with a deadline
\* strictly greater than now, whatever its period.
C28_DrainedAndRearmedLater ==
    tm_log.passes > 0 =>
        /\ DrainedOnTime
        /\ \A d \in DrainedTimers : d.recurring =>
                \E t \in tm_log.after : t.id = d.id /\ t.next > tm_log.now

\* C28 (amended): after a listExpiredCb pass, every timer it drained had a
\* deadline <= now, every timer of the set with deadline <= now was drained,
\* and every recurring timer drained is in the set again with the deadline
\* now + period: strictly greater than now when the period is greater than 0,
\* equal to now when the period is 0.
C28_DrainedAndRearmed ==
    tm_log.passes > 0 =>
        /\ DrainedOnTime
        /\ \A d \in DrainedTimers : d.recurring =>
                \E t \in tm_log.after :
                    /\ t.id = d.id
                    /\ t.next = tm_log.now + d.ms
                    /\ (d.ms > 0 => t.next > tm_log.now)
                    /\ (d.ms = 0 => t.next = tm_log.now)

\* A pass has drained a recurring timer of period 0 and a timer whose deadline
\* was exactly now, and has left a timer that was not yet due.
C28_Witness ==
    /\ tm_log.passes > 0
    /\ \E d \in DrainedTimers : d.recurring /\ d.ms = 0
    /\ \E d \in DrainedTimers : d.next = tm_log.now
    /\ \E t \in tm_log.before : t.next > tm_log.now

\* C29: the callback of a conditional timer is never invoked once its witness
\* has been destroyed: every invocation of the callback of a conditional
\* timer found the witness alive.
C29_NoCallbackAfterWitness ==
    \A c \in tm_log.invoked : c.cond # 0 => c.alive

\* A conditional timer expired and was drained, its witness was destroyed,
\* and the drained callback then ran without invoking the user's callback.
C29_Witness ==
    /\ tm_log.suppressed # {}
    /\ tm_weak = {}
    /\ \E c \in tm_log.invoked : c.cond = 0

-----------------------------------------------------------------------------
(* Claims about the scheduler and the hook flag, checked under Spec *)

\* Worker th, scanning the queue under the mutex, finds as its task a fiber
\* that is not READY: assert(it->fiber->getState() == Fiber::READY) fails in
\* this step (with NDEBUG the fiber is taken and resumed while it runs).
AssertReadyFails(th) ==
    /\ wk[th].pc = "scan"
    /\ FirstFor(m_tasks, th) # 0
    /\ LET e == m_tasks[FirstFor(m_tasks, th)] IN
          e.fiber # nullptr /\ fibers[e.fiber].state # READY
    /\ \A o \in Threads : wk[o].pc # "exec"
    /\ crash = "none" /\ crash' # "none"
    /\ UNCHANGED <<wk, fibers, mainst>>

\* C30: whenever a worker dequeues a coroutine task the coroutine is READY:
\* no step of a worker that scans the queue finds a fiber that is not READY
\* as its task, with any number of workers, also when the coroutine put
\* itself on the queue before it executed its yield.
C30_DequeuedFiberIsReady ==
    [][\A th \in Threads : ~AssertReadyFails(th)]_vars

\* C22: the thread-local hook-enabled flag is false on the threads that never
\* entered run() and true on every worker thread from its first entry into
\* run() on.
InsideOrPastRun(th) == wk[th].pc \notin {"off", "enter"}
C22_HookOnWorkers ==
    \A th \in Threads : t_hook_enable[th] <=> InsideOrPastRun(th)

-----------------------------------------------------------------------------
(* Claims about the syscall hooks, checked under SpecHook *)

\* One of the four conditions under which do_io is to delegate holds for the
\* call of thread th.
MustDelegate(th) ==
    \/ ~t_hook_enable[th]
    \/ hook[th].pre.ctx = NoCtx
    \/ ~hook[th].pre.ctx.isSocket
    \/ hook[th].pre.ctx.userNonblock

\* C24: a hooked I/O call delegates directly to the original function, calling
\* it exactly once and without registering an event, arming a timer or
\* suspending the fiber, whenever hooking is disabled for the thread, or the
\* fd has no context, or the fd is not a socket, or the user set non-blocking:
\* such a call is on the delegating path, has made one call of the original
\* function, is inside it or has returned what it returned, and no timer is
\* armed.
C24_DelegatesDirectly ==
    \A th \in IOThreads :
        hook[th].fn = "do_io" /\ MustDelegate(th) =>
            /\ hook[th].path = "delegate"
            /\ hook[th].calls = 1
            /\ hook[th].pc \in {"blocked", "done"}
            /\ (hook[th].pc = "done" =>
                    /\ (hook[th].ret = -1) = (hook[th].err # "none")
                    /\ hook[th].err \in {"none", "EAGAIN", "EBADF", "EINTR"})
            /\ tm_timers = {}
            /\ m_timers = 0

\* A read on a socket that has a context and on which the user has set
\* O_NONBLOCK has returned EAGAIN from the one call of the original function.
C24_Witness ==
    \E th \in IOThreads :
        /\ hook[th].fn = "do_io"
        /\ hook[th].pc = "done"
        /\ Managed(hook[th].pre.ctx)
        /\ hook[th].pre.ctx.userNonblock
        /\ hook[th].calls = 1
        /\ hook[th].err = "EAGAIN"

\* C25: for a socket that has a context, fcntl(F_GETFL) returns flags whose
\* O_NONBLOCK bit is the one of the user's most recent F_SETFL or FIONBIO
\* request, whatever the kernel's flag is.
C25_GetFlReflectsUser ==
    \A th \in IOThreads :
        /\ hook[th].fn = "F_GETFL"
        /\ hook[th].pc = "done"
        /\ Managed(hook[th].pre.ctx)
        /\ hook[th].pre.asked # <<>>
        => hook[th].ret = (IF hook[th].pre.asked[1] THEN 1 ELSE 0)

\* F_GETFL has returned flags without O_NONBLOCK, as the user had asked last,
\* on a socket whose kernel flag was set.
C25_Witness ==
    \E th \in IOThreads :
        /\ hook[th].fn = "F_GETFL"
        /\ hook[th].pc = "done"
        /\ Managed(hook[th].pre.ctx)
        /\ hook[th].pre.asked = <<FALSE>>
        /\ hook[th].pre.nonblock
        /\ hook[th].ret = 0

\* C26: for a socket that has a context and whose kernel O_NONBLOCK flag the
\* runtime has set, no sequence of hooked fcntl(F_SETFL) and ioctl(FIONBIO)
\* calls clears the kernel flag.
C26_KernelFlagStays ==
    \A fd \in Fds :
        /\ kfd[fd].open
        /\ Managed(m_datas[fd])
        /\ m_datas[fd].sysNonblock
        => kfd[fd].nonblock

C23_SleepYields ==
    \A th \in IOThreads :
        hook[th].fn = "sleep" /\ hook[th].pc # "done" =>
            /\ hook[th].path = "cooperate"
            /\ hook[th].calls = 0
            /\ io[th].pc # "hook"

\* C27: hooked close on an fd that has a context fires every direction still
\* registered (each is scheduled once and the pending event count drops by
\* their number) and deletes the fd context before the original close; after
\* it returns no direction is registered on the fd.
C27_CloseCancelsAll ==
    \A th \in IOThreads :
        /\ hook[th].fn = "close"
        /\ hook[th].pc = "done"
        /\ hook[th].pre.ctx # NoCtx
        => /\ hook[th].post.events = {}
           /\ hook[th].post.ctx = NoCtx
           /\ hook[th].post.nsched
                = hook[th].pre.nsched + Cardinality(hook[th].pre.events)
           /\ hook[th].post.pend
                = hook[th].pre.pend - Cardinality(hook[th].pre.events)

-----------------------------------------------------------------------------
(* Claims about locking, the fd table and the idle loop *)

\* C39: every path through delEvent, cancelEvent and cancelAll releases the
\* mutex of the fd context exactly once, the early returns included: a call
\* that is about to return, where the destructor of its scoped lock unlocks
\* the mutex, still holds the mutex.
C39_ReleasedExactlyOnce ==
    \A th \in IOThreads :
        io[th].pc = "unlock" /\ io[th].op \in {"delEvent", "cancelEvent", "cancelAll"}
            => fd_mutex[io[th].fd] = <<th>>

\* Worker th has taken a task and has not yet lowered m_activeThreadCount.
HoldsTask(th) == wk[th].pc \in {"exec", "run", "swap", "ret"}

\* C35: Scheduler::stopping() never returns true while some worker has removed
\* a task from the queue and has not yet returned from resuming it (the task
\* is erased and m_activeThreadCount raised in one critical section, and the
\* count is lowered only after resume() has returned).
C35_NotStoppingWhileTaskHeld ==
    \A th \in Threads : HoldsTask(th) => ~stopping

\* stop() has been called and the queue is empty, and a worker still holds a
\* task it has taken: only m_activeThreadCount keeps stopping() false.
C35_Witness ==
    /\ m_stopping
    /\ m_tasks = <<>>
    /\ \E th \in Threads : HoldsTask(th) /\ wk[th].pc = "run"
    /\ \E th \in Threads : wk[th].pc = "idle"

\* Task n is pinned to a thread id that is not the id of any worker.
Orphan(n) == taskLog[n].pin \notin ExpectedWorkers \cup {AnyThread}
\* Such a task is in the queue.
OrphanQueued(q) == \E i \in DOMAIN q : q[i].thread \notin ExpectedWorkers \cup {AnyThread}
\* The idle fibers that have terminated, the threads that have left run().
IdleTerm == {th \in Threads : wk[th].idle_fiber # nullptr
                              /\ fibers[wk[th].idle_fiber].state = TERM}
LeftRun == {th \in Threads : wk[th].pc = "exit"}

\* C37: a task pinned to a thread id that is not the id of any worker is never
\* dequeued; while it is in the queue stopping() is false, no idle fiber
\* terminates, no worker leaves run(), and a stop() called on a use_caller
\* scheduler does not return.
C37_OrphanBlocksStop ==
    /\ [](\A n \in DOMAIN taskLog : Orphan(n) => taskLog[n].deq = 0)
    /\ [](OrphanQueued(m_tasks) => ~stopping)
    /\ [][ OrphanQueued(m_tasks) =>
            /\ OrphanQueued(m_tasks')
            /\ IdleTerm' = IdleTerm
            /\ LeftRun' = LeftRun
            /\ (ctor.use_caller => ~StopReturns)
       ]_vars

\* stop() of a use_caller scheduler without spawned thread is in progress:
\* the caller thread is in its idle fiber inside run(), m_stopping is set, and
\* the only task left in the queue is pinned to thread 1.
C37_Witness ==
    /\ ctor.use_caller /\ ctor.threads = 1
    /\ mainst.pc = "stop_root"
    /\ m_stopping
    /\ wk[Caller].pc = "idle"
    /\ Len(m_tasks) = 1 /\ m_tasks[1].thread = 1
    /\ \E n \in DOMAIN taskLog : ~Orphan(n) /\ taskLog[n].run = 1

\* C34: under concurrent addEvent calls the table of fd contexts never shrinks
\* and every fd keeps the same context object: no step removes an index from
\* the table or puts another object at an index.
C34_TableKeepsContexts ==
    [][ \A i \in DOMAIN m_fdContexts :
            i \in DOMAIN m_fdContexts' /\ m_fdContexts'[i] = m_fdContexts[i]
      ]_vars

\* C33: no worker of an IOManager enters the readiness wait while the queue
\* holds a task it could run and no wake byte of the self-pipe is waiting to
\* be reported, also when a schedule() came between the worker's scan of the
\* queue and its increment of m_idleThreadCount.
C33_NoLostWakeup ==
    [][ \A th \in IOThreads :
            (io[th].pc # "epoll_wait" /\ io'[th].pc = "epoll_wait") =>
                ~(/\ FirstFor(m_tasks', th) # 0
                  /\ <<TickleFd, READ>> \notin epoll_ready')
      ]_vars


\* The time to the deadline of the first timer of the set, as getNextTimer()
\* reports it: the saturated value on an empty set, 0 for a timer that is due.
TimeToNextTimer ==
    IF tm_timers = {} THEN Infinite
    ELSE LET first == InSetOrder(tm_timers)[1]
         IN  IF first.next <= tm_now THEN 0 ELSE first.next - tm_now

\* C38: each call of the readiness wait in the idle loop is passed
\* min(time until the next timer deadline, 5000 ms) as its timeout.
C38_TimeoutIsTimeToNext ==
    [][tm_log'.waits # tm_log.waits =>
            tm_log'.timeout =
                IF TimeToNextTimer = Infinite \/ TimeToNextTimer > MAX_TIMEOUT
                THEN MAX_TIMEOUT ELSE TimeToNextTimer
      ]_vars

=============================================================================
